---- MODULE Spec2Model ----
(***************************************************************************)
(* Circuit gadgets of zexe: curve-variable scalar multiplication, plain    *)
(* and windowed (r1cs-std/src/groups/mod.rs), the pairing interface        *)
(* (r1cs-std/src/pairing/mod.rs), the Groth16 verifier gadget              *)
(* (crypto-primitives/src/nizk/groth16/constraints.rs), the Pedersen CRH   *)
(* gadget (crypto-primitives/src/crh/pedersen/constraints.rs), the         *)
(* Bowe-Hopwood CRH gadget (.../crh/bowe_hopwood/constraints.rs), the      *)
(* recursive circuits (groth16/examples/recursive-snark/constraints.rs),   *)
(* R1CSVar (r1cs-std/src/lib.rs) and the gadget tests of groups and        *)
(* pairing.                                                                *)
(*                                                                         *)
(* The curve groups G1 and G2 are modelled by the cyclic group of prime    *)
(* order Order, written additively as 0..Order-1.  A Miller loop value is  *)
(* an element of the cyclic group of order Order*Cofactor; the final       *)
(* exponentiation multiplies by Cofactor and so lands in the subgroup of   *)
(* order Order, on which the pairing e(p, q) = Cofactor*p*q is bilinear.   *)
(* A constraint system is the sequence of the equalities enforced on it.   *)
(***************************************************************************)
EXTENDS Integers, Sequences, FiniteSets, TLC

VARIABLES
    vk,         \* VerifyingKeyVar handed to the verifier gadget
    pvk,        \* PreparedVerifyingKeyVar, or NoKey before one exists
    proof,      \* ProofVar {a, b, c}
    input,      \* the public inputs: a sequence of little-endian bit sequences
    cs,         \* the constraint system: the equalities enforced so far
    call,       \* the last gadget call: [op, condition, fault, nth]
    ret,        \* what that call returned and computed: [res, ops, g_ic, test]
    self,       \* the curve variable mul_bits is called on
    bits,       \* the bit sequence handed to mul_bits
    mul_out,    \* what mul_bits returned: [res, result, power, trace, adds]
    pair_p,     \* the prepared G1 operands handed to a pairing operation
    pair_q,     \* the prepared G2 operands handed to a pairing operation
    pair_out,   \* the last pairing operation: [op, fault, res, val, ops]
    bases,      \* the tables of precomputed base powers, one per window
    scalars,    \* the windows of scalar bits
    window,     \* the Pedersen window parameters: [size, num]
    crh_input,  \* the bytes handed to the Pedersen CRH gadget
    win_out,    \* the last windowed multiplication:
                \* [op, fault, pairs, res, err, result, trace]
    inner_inputs,   \* the inner circuit's public inputs, as integers
    pack_out,   \* what the input packing of a recursive circuit produced
    allocated,  \* the variables allocated in the constraint system: [name, mode]
    alloc_out,  \* the last allocation: [kind, mode, producer, failing, res, err]
    elements,   \* a slice of variables, each given by the handle its cs() reports
    const_out,  \* the last cs() / is_constant query: [op, handle, constant]
    test_in,    \* the random values a gadget test draws: [a, b, s]
    test_out    \* what the gadget test computed: [op, fault, res, ...]

vars == <<vk, pvk, proof, input, cs, call, ret, self, bits, mul_out,
          pair_p, pair_q, pair_out, bases, scalars, window, crh_input, win_out,
          inner_inputs, pack_out, allocated, alloc_out, elements, const_out,
          test_in, test_out>>
grothVars == <<vk, pvk, proof, input, cs, call, ret>>
mulVars == <<self, bits, mul_out>>
pairVars == <<pair_p, pair_q, pair_out>>
winVars == <<bases, scalars, window, crh_input, win_out>>
packVars == <<inner_inputs, pack_out>>
allocVars == <<allocated, alloc_out>>
constVars == <<elements, const_out>>
testVars == <<test_in, test_out>>

(***************************************************************************)
(* Bounds of the model.                                                    *)
(***************************************************************************)
Primes == <<2, 3, 5, 7, 11, 13>>
OrderIdx == 3       \* the group order is Primes[OrderIdx]
Cofactor == 2       \* the exponent of the final exponentiation
MaxBits == 3        \* longest bit sequence handed to mul_bits on its own
MaxQuery == 3       \* longest gamma_abc_g1 of a verifying key
MaxPrepares == 2    \* most preparations of one verifying key in a row
MaxPairs == 2       \* longest list of pairs handed to product_of_pairings
MaxWindows == 2     \* most windows of bits, and most tables of base powers
MaxBytes == 1       \* longest input handed to the Pedersen CRH gadget
NumLimbs == 2       \* BigInt::NUM_LIMBS: limbs of a field element's representation
LimbBytes == 2      \* bytes of one limb (the u64 limbs, scaled down)
MaxInputs == 2      \* most public inputs of the inner circuit

Order == Primes[OrderIdx]
G1 == 0 .. (Order - 1)
G2 == 0 .. (Order - 1)
GTOrder == Order * Cofactor

RECURSIVE SeqsUpTo(_, _)
SeqsUpTo(S, n) ==
    IF n = 0 THEN {<<>>}
    ELSE LET shorter == SeqsUpTo(S, n - 1)
         IN shorter \cup {Append(s, x) : s \in {t \in shorter : Len(t) = n - 1}, x \in S}

BitSeqs(n) == SeqsUpTo(BOOLEAN, n)

(***************************************************************************)
(* Results and injected failures.  Every fallible operation of a           *)
(* collaborator (a Result-returning trait method) fails when the           *)
(* environment's fault names it.                                           *)
(***************************************************************************)
NoFault == "none"
Fails(op, fault) == fault = op

(***************************************************************************)
(* Curve variables: the group law the CurveVar trait requires.             *)
(***************************************************************************)
Zero == 0
Add(a, b) == (a + b) % Order
Negate(a) == (Order - a) % Order
DoubleInPlace(a) == (a + a) % Order
Select(bit, trueValue, falseValue) == IF bit THEN trueValue ELSE falseValue

\* k * p computed natively, by the group's own scalar multiplication.
ScalarMul(k, p) == (k * p) % Order

\* The integer a little-endian bit sequence stands for.
RECURSIVE BitsValue(_)
BitsValue(bs) ==
    IF bs = <<>> THEN 0
    ELSE (IF Head(bs) THEN 1 ELSE 0) + 2 * BitsValue(Tail(bs))

(***************************************************************************)
(* CurveVar::mul_bits: double-and-add over little-endian bits.  The loop   *)
(* state is [res, result, power, trace, adds]: trace lists the gadget      *)
(* operations issued, adds the operands of every addition.                 *)
(***************************************************************************)
\* The loop body with the doubling moved in front of the addition.
MulBitsStepDoubleFirst(st, bit, fault) ==
    LET doubled == DoubleInPlace(st.power)
        new_encoded == Add(st.result, doubled)
    IN [st EXCEPT !.trace = @ \o <<"double_in_place", "add", "select">>,
                  !.adds = Append(@, [result |-> st.result, power |-> doubled]),
                  !.result = Select(bit, new_encoded, st.result),
                  !.power = doubled]

\* The loop body branching on the bit: the addition is issued only for a set bit.
MulBitsStepBranching(st, bit, fault) ==
    IF bit
    THEN [st EXCEPT !.trace = @ \o <<"add", "double_in_place">>,
                    !.adds = Append(@, [result |-> st.result, power |-> st.power]),
                    !.result = Add(st.result, st.power),
                    !.power = DoubleInPlace(st.power)]
    ELSE [st EXCEPT !.trace = Append(@, "double_in_place"),
                    !.power = DoubleInPlace(st.power)]

\* One pass of the loop body on bit `bit`.
MulBitsStep(st, bit, fault) ==
    LET new_encoded == Add(st.result, st.power)
        afterAdd == [st EXCEPT !.trace = Append(@, "add"),
                               !.adds = Append(@, [result |-> st.result,
                                                   power |-> st.power])]
        afterSelect == [afterAdd EXCEPT !.trace = Append(@, "select")]
        selected == [afterSelect EXCEPT !.result = Select(bit, new_encoded, st.result)]
        afterDouble == [selected EXCEPT !.trace = Append(@, "double_in_place")]
    IN IF Fails("select", fault) THEN [afterSelect EXCEPT !.res = "Err"]
       ELSE IF Fails("double_in_place", fault) THEN [afterDouble EXCEPT !.res = "Err"]
       ELSE [afterDouble EXCEPT !.power = DoubleInPlace(st.power)]

RECURSIVE MulBitsLoop(_, _, _)
MulBitsLoop(st, bs, fault) ==
    IF bs = <<>> \/ st.res # "run" THEN st
    ELSE MulBitsLoop(MulBitsStep(st, Head(bs), fault), Tail(bs), fault)

MulBits(p, bs, fault) ==
    LET start == [res |-> "run", result |-> Zero, power |-> p,
                  trace |-> <<>>, adds |-> <<>>]
        end == MulBitsLoop(start, bs, fault)
    IN IF end.res = "run" THEN [end EXCEPT !.res = "Ok"] ELSE end

NoMul == [res |-> "none", result |-> Zero, power |-> Zero, trace |-> <<>>, adds |-> <<>>]

(***************************************************************************)
(* Pairing variables: prepared operands, Miller loop, final                *)
(* exponentiation (the operations the PairingVar trait requires).          *)
(***************************************************************************)
Undef == 0 - 1

PrepareG1(p) == [g1 |-> p]
PrepareG2(q) == [g2 |-> q]

RECURSIVE MillerSum(_, _)
MillerSum(p, q) ==
    IF p = <<>> \/ q = <<>> THEN 0
    ELSE (Head(p).g1 * Head(q).g2 + MillerSum(Tail(p), Tail(q))) % GTOrder

\* miller_loop(p, q): the combined, not yet exponentiated, product over the pairs.
MillerLoop(p, q) == MillerSum(p, q)

\* final_exponentiation: raise to the cofactor power.
FinalExponentiation(f) == (Cofactor * f) % GTOrder

\* The native pairing of the curve library.
NativePairing(p, q) == (Cofactor * p * q) % GTOrder

(***************************************************************************)
(* The constraint system: enforced equalities, each gated by a condition.  *)
(***************************************************************************)
ConditionalEnforceEqual(system, lhs, rhs, condition) ==
    Append(system, [lhs |-> lhs, rhs |-> rhs, condition |-> condition])

ConstraintHolds(c) == c.condition => c.lhs = c.rhs

IsSatisfied(system) == \A i \in 1 .. Len(system) : ConstraintHolds(system[i])

BooleanConstant(b) == b

\* to_bits of a slice of booleans: the bits themselves, in order.
ToBits(t) == t

(***************************************************************************)
(* CurveVar::precomputed_base_scalar_mul: select-and-add over pairs of a   *)
(* bit and a precomputed base power.  The loop state is [res, result,      *)
(* trace]: result is the value of self, trace the gadget operations        *)
(* issued.                                                                 *)
(***************************************************************************)
\* zip of two sequences: it ends with the shorter one.
Zip(left, right) ==
    [i \in 1 .. (IF Len(left) < Len(right) THEN Len(left) ELSE Len(right)) |->
        [bit |-> left[i], base_power |-> right[i]]]

\* The loop body doubling the running value after each pair, as mul_bits does
\* with its power.
PrecomputedStepDoubling(st, pair, fault) ==
    LET new_encoded == Add(st.result, pair.base_power)
    IN [st EXCEPT !.trace = @ \o <<"add", "select", "double_in_place">>,
                  !.result = DoubleInPlace(Select(pair.bit, new_encoded, st.result))]

\* One pass of the loop body on the pair (bit, base_power).
PrecomputedStep(st, pair, fault) ==
    LET new_encoded == Add(st.result, pair.base_power)
        afterSelect == [st EXCEPT !.trace = @ \o <<"add", "select">>]
    IN IF Fails("select", fault) THEN [afterSelect EXCEPT !.res = "Err"]
       ELSE [afterSelect EXCEPT !.result = Select(pair.bit, new_encoded, st.result)]

RECURSIVE PrecomputedLoop(_, _, _)
PrecomputedLoop(st, pairs, fault) ==
    IF pairs = <<>> \/ st.res # "run" THEN st
    ELSE PrecomputedLoop(PrecomputedStep(st, Head(pairs), fault), Tail(pairs), fault)

\* The call on a curve variable of value `point`: result is the value it is
\* left with, also when a select failed on the way.
PrecomputedBaseScalarMul(point, pairs, fault) ==
    LET end == PrecomputedLoop([res |-> "run", result |-> point, trace |-> <<>>],
                               pairs, fault)
    IN IF end.res = "run" THEN [end EXCEPT !.res = "Ok"] ELSE end

(***************************************************************************)
(* CurveVar::precomputed_base_multiscalar_mul: the windows of bits zipped  *)
(* with the tables of base powers, each window folded into the result.     *)
(***************************************************************************)
\* for (bits, base_powers) in scalars.zip(bases): the loop ends with the
\* shorter of the two sequences.
RECURSIVE MultiscalarLoop(_, _, _, _)
MultiscalarLoop(st, windows, tables, fault) ==
    IF windows = <<>> \/ tables = <<>> \/ st.res # "run" THEN st
    ELSE IF Fails("to_bits", fault)
         THEN [st EXCEPT !.res = "Err", !.trace = Append(@, "to_bits")]
    ELSE LET base_powers == Head(tables)
             window_bits == ToBits(Head(windows))
             inner == PrecomputedBaseScalarMul(st.result, Zip(window_bits, base_powers),
                                               fault)
             after == [res |-> IF inner.res = "Ok" THEN "run" ELSE inner.res,
                       result |-> inner.result,
                       trace |-> st.trace \o <<"to_bits">> \o inner.trace]
         IN MultiscalarLoop(after, Tail(windows), Tail(tables), fault)

PrecomputedBaseMultiscalarMul(tables, windows, fault) ==
    LET end == MultiscalarLoop([res |-> "run", result |-> Zero, trace |-> <<>>],
                               windows, tables, fault)
    IN IF end.res = "run" THEN [end EXCEPT !.res = "Ok"] ELSE end

\* A 3-bit variant that falls back on the bit-by-bit windowed multiplication.
PrecomputedBase3BitFallingBack(tables, windows) ==
    LET out == PrecomputedBaseMultiscalarMul(tables, windows, NoFault)
    IN [res |-> out.res, err |-> "none", result |-> out.result, trace |-> out.trace]

\* The default precomputed_base_3_bit_signed_digit_scalar_mul.
PrecomputedBase3BitSignedDigitScalarMul(tables, windows) ==
    [res |-> "Err", err |-> "AssignmentMissing", result |-> Undef, trace |-> <<>>]

(***************************************************************************)
(* Pedersen CRHGadget::evaluate: the input bytes, padded with zero bytes,  *)
(* cut into NUM_WINDOWS windows of WINDOW_SIZE bits.                       *)
(***************************************************************************)
ByteBits == 8

\* UInt8::into_bits_le: the bits of a byte, least significant first.
RECURSIVE IntoBitsLe(_, _)
IntoBitsLe(value, n) ==
    IF n = 0 THEN <<>> ELSE <<value % 2 = 1>> \o IntoBitsLe(value \div 2, n - 1)

\* flat_map(|b| b.into_bits_le())
RECURSIVE FlatBits(_)
FlatBits(bytes) ==
    IF bytes = <<>> THEN <<>> ELSE IntoBitsLe(Head(bytes), ByteBits) \o FlatBits(Tail(bytes))

\* slice.chunks(size): pieces of `size` elements, the last one shorter if the
\* length is no multiple of size.
RECURSIVE Chunks(_, _)
Chunks(seq, size) ==
    IF seq = <<>> THEN <<>>
    ELSE IF Len(seq) <= size THEN <<seq>>
    ELSE <<SubSeq(seq, 1, size)>> \o Chunks(SubSeq(seq, size + 1, Len(seq)), size)

\* The input padded with zero bytes when it is shorter than the windows.
PaddedInput(input_bytes, w) ==
    IF Len(input_bytes) * ByteBits < w.size * w.num
    THEN LET target == (w.size * w.num) \div ByteBits
         IN input_bytes \o [i \in 1 .. (target - Len(input_bytes)) |-> 0]
    ELSE input_bytes

InputInBits(input_bytes, w) == Chunks(FlatBits(PaddedInput(input_bytes, w)), w.size)

CRHEvaluate(generators, input_bytes, w, fault) ==
    LET padded_input == PaddedInput(input_bytes, w)
        panic == [res |-> "Panic", err |-> "none", result |-> Undef, trace |-> <<>>]
    IN IF Len(padded_input) * ByteBits # w.size * w.num THEN panic
       ELSE IF Len(generators) # w.num THEN panic
       ELSE LET out == PrecomputedBaseMultiscalarMul(generators,
                                                     InputInBits(input_bytes, w), fault)
            IN [res |-> out.res, err |-> "none", result |-> out.result,
                trace |-> out.trace]

(***************************************************************************)
(* Bowe-Hopwood CRHGadget::evaluate: the input bits, padded with constant  *)
(* false to whole chunks of CHUNK_SIZE bits, grouped by window.            *)
(***************************************************************************)
ChunkSize == 3

\* The input bits followed by constant false up to a multiple of CHUNK_SIZE.
PaddedToChunks(input_bits) ==
    IF Len(input_bits) % ChunkSize # 0
    THEN input_bits \o [i \in 1 .. (ChunkSize - (Len(input_bits) % ChunkSize)) |-> FALSE]
    ELSE input_bits

\* chunks(WINDOW_SIZE * CHUNK_SIZE), each cut into chunks(CHUNK_SIZE).
GroupedChunks(input_bits, w) ==
    LET groups == Chunks(input_bits, w.size * ChunkSize)
    IN [i \in 1 .. Len(groups) |-> Chunks(groups[i], ChunkSize)]

BoweHopwoodEvaluate(generators, input_bytes, w) ==
    LET input_in_bits == PaddedToChunks(FlatBits(input_bytes))
        panic == [res |-> "Panic", err |-> "none", result |-> Undef, trace |-> <<>>,
                  called |-> FALSE, groups |-> <<>>]
    IN IF Len(input_in_bits) % ChunkSize # 0 THEN panic
       ELSE IF Len(generators) # w.num THEN panic
       ELSE IF \E i \in 1 .. Len(generators) : Len(generators[i]) # w.size THEN panic
       ELSE LET groups == GroupedChunks(input_in_bits, w)
                out == PrecomputedBase3BitSignedDigitScalarMul(generators, groups)
            IN [res |-> out.res, err |-> out.err, result |-> out.result,
                trace |-> out.trace, called |-> TRUE, groups |-> groups]

(***************************************************************************)
(* The input packing of the recursive circuits.  A field element is the    *)
(* sequence of the limbs of its integer representation (into_repr), least  *)
(* significant limb first; bit j of the integer is bit j mod LimbBits of   *)
(* limb j div LimbBits.                                                    *)
(***************************************************************************)
LimbBits == LimbBytes * ByteBits
FieldSlack == 3
\* MODULUS_BITS and CAPACITY of the fields of the curve cycle.
FieldBits == NumLimbs * LimbBits - FieldSlack
Capacity == FieldBits - 1

RECURSIVE Pow2(_)
Pow2(n) == IF n = 0 THEN 1 ELSE 2 * Pow2(n - 1)

ElementBit(element, j) == (element[(j \div LimbBits) + 1] \div Pow2(j % LimbBits)) % 2 = 1

\* The bytes of a limb, most significant first.
ToBeBytes(limb) ==
    [k \in 1 .. LimbBytes |-> (limb \div Pow2(ByteBits * (LimbBytes - k))) % Pow2(ByteBits)]

\* l.to_le_bytes(): the bytes of a limb, least significant first.
ToLeBytes(limb) ==
    [k \in 1 .. LimbBytes |-> (limb \div Pow2(ByteBits * (k - 1))) % Pow2(ByteBits)]

\* input.into_repr().as_ref().iter().flat_map(|l| l.to_le_bytes())
RECURSIVE LimbsToBytes(_)
LimbsToBytes(limbs) ==
    IF limbs = <<>> THEN <<>> ELSE ToLeBytes(Head(limbs)) \o LimbsToBytes(Tail(limbs))

\* Chain all input values in one large byte array.
RECURSIVE InputBytes(_)
InputBytes(inputs) ==
    IF inputs = <<>> THEN <<>> ELSE LimbsToBytes(Head(inputs)) \o InputBytes(Tail(inputs))

\* MiddleCircuit::generate_constraints, the block that allocates the inputs.
MiddleInputs(inputs, fault) ==
    LET input_bytes == InputBytes(inputs)
        element_size == NumLimbs * LimbBytes
        chunks == Chunks(input_bytes, element_size)
    IN IF Fails("new_input_vec", fault)
       THEN [res |-> "Err", bytes |-> <<>>, bits |-> <<>>, gadgets |-> <<>>]
       ELSE [res |-> "Ok", bytes |-> input_bytes, bits |-> <<>>,
             gadgets |-> [i \in 1 .. Len(chunks) |-> FlatBits(chunks[i])]]

Reverse(seq) == [i \in 1 .. Len(seq) |-> seq[Len(seq) + 1 - i]]

\* FpVar::to_bits: the MODULUS_BITS bits of the value, most significant first,
\* each an allocated boolean.
FpToBits(element) ==
    [i \in 1 .. FieldBits |-> [val |-> ElementBit(element, FieldBits - i), constant |-> FALSE]]

\* Boolean::constant(false) pushed until the sequence is `size` long.
PadFalse(seq, size) ==
    seq \o [i \in 1 .. (IF Len(seq) < size THEN size - Len(seq) ELSE 0) |->
               [val |-> FALSE, constant |-> TRUE]]

\* The bits of one input taken in the order to_bits gives them.
InputFpBitsNotReversed(element) == PadFalse(FpToBits(element), NumLimbs * LimbBits)

\* The bits one input contributes: to_bits reversed, then the padding.
InputFpBits(element) == PadFalse(Reverse(FpToBits(element)), NumLimbs * LimbBits)

\* Chunks as wide as the whole representation of a field element.
MaxSizeWholeRepresentation == NumLimbs * LimbBits

\* max_size = 8 * (CAPACITY / 8): the stream bits packed into one field element.
MaxSize == ByteBits * (Capacity \div ByteBits)

RECURSIVE InputBitStream(_)
InputBitStream(inputs) ==
    IF inputs = <<>> THEN <<>> ELSE InputFpBits(Head(inputs)) \o InputBitStream(Tail(inputs))

\* OuterCircuit::generate_constraints, the block that allocates and packs the
\* inputs.
OuterInputs(inputs, fault) ==
    LET input_bits == InputBitStream(inputs)
        max_size == MaxSize
        bigint_size == NumLimbs * LimbBits
        chunks == Chunks(input_bits, max_size)
    IN IF inputs # <<>> /\ (Fails("new_input", fault) \/ Fails("to_bits", fault))
       THEN [res |-> "Err", bytes |-> <<>>, bits |-> <<>>, gadgets |-> <<>>]
       ELSE [res |-> "Ok", bytes |-> <<>>, bits |-> input_bits,
             gadgets |-> [i \in 1 .. Len(chunks) |-> PadFalse(chunks[i], bigint_size)]]

(***************************************************************************)
(* PairingVar::pairing: one Miller loop, then the final exponentiation.    *)
(***************************************************************************)
\* pairing without the final exponentiation.
PairingWithoutExponentiation(p, q, fault) ==
    IF Fails("miller_loop", fault)
    THEN [res |-> "Err", val |-> Undef, ops |-> <<"miller_loop">>]
    ELSE [res |-> "Ok", val |-> MillerLoop(<<p>>, <<q>>), ops |-> <<"miller_loop">>]

Pairing(p, q, fault) ==
    IF Fails("miller_loop", fault)
    THEN [res |-> "Err", val |-> Undef, ops |-> <<"miller_loop">>]
    ELSE LET tmp == MillerLoop(<<p>>, <<q>>)
         IN IF Fails("final_exponentiation", fault)
            THEN [res |-> "Err", val |-> Undef,
                  ops |-> <<"miller_loop", "final_exponentiation">>]
            ELSE [res |-> "Ok", val |-> FinalExponentiation(tmp),
                  ops |-> <<"miller_loop", "final_exponentiation">>]

\* product_of_pairings with a Miller loop and a final exponentiation per pair.
RECURSIVE ProductOfPairingsPerPair(_, _, _)
ProductOfPairingsPerPair(p, q, fault) ==
    IF p = <<>> \/ q = <<>> THEN [res |-> "Ok", val |-> 0, ops |-> <<>>]
    ELSE LET one == Pairing(Head(p), Head(q), fault)
             rest == ProductOfPairingsPerPair(Tail(p), Tail(q), fault)
         IN IF one.res = "Err" THEN one
            ELSE [res |-> rest.res,
                  val |-> IF rest.res = "Ok" THEN (one.val + rest.val) % GTOrder ELSE Undef,
                  ops |-> one.ops \o rest.ops]

\* PairingVar::product_of_pairings: one Miller loop over all the pairs, then
\* the final exponentiation of its result.
ProductOfPairings(p, q, fault) ==
    IF Fails("miller_loop", fault)
    THEN [res |-> "Err", val |-> Undef, ops |-> <<"miller_loop">>]
    ELSE LET miller_result == MillerLoop(p, q)
         IN IF Fails("final_exponentiation", fault)
            THEN [res |-> "Err", val |-> Undef,
                  ops |-> <<"miller_loop", "final_exponentiation">>]
            ELSE [res |-> "Ok", val |-> FinalExponentiation(miller_result),
                  ops |-> <<"miller_loop", "final_exponentiation">>]

NoPair == [op |-> "none", fault |-> NoFault, res |-> "none", val |-> Undef, ops |-> <<>>]

NoWindow == [size |-> 0, num |-> 0]
NoWin == [op |-> "none", fault |-> NoFault, pairs |-> <<>>, res |-> "none",
          err |-> "none", result |-> Zero, trace |-> <<>>]
NoPack == [op |-> "none", fault |-> NoFault, res |-> "none", bytes |-> <<>>,
           bits |-> <<>>, gadgets |-> <<>>]

(***************************************************************************)
(* VerifyingKeyVar::prepare.                                               *)
(***************************************************************************)
NoKey == [alpha_g1_beta_g2 |-> Undef, gamma_g2_neg_pc |-> [g2 |-> Undef],
          delta_g2_neg_pc |-> [g2 |-> Undef], gamma_abc_g1 |-> <<>>]

\* A prepared key with gamma and delta prepared as they are, not negated.
PreparedKeyNotNegated(key, alpha_g1_beta_g2) ==
    [alpha_g1_beta_g2 |-> alpha_g1_beta_g2,
     gamma_g2_neg_pc |-> PrepareG2(key.gamma_g2),
     delta_g2_neg_pc |-> PrepareG2(key.delta_g2),
     gamma_abc_g1 |-> key.gamma_abc_g1]

\* A prepared key whose delta slot holds the negated, prepared gamma.
PreparedKeyGammaForDelta(key, alpha_g1_beta_g2) ==
    [alpha_g1_beta_g2 |-> alpha_g1_beta_g2,
     gamma_g2_neg_pc |-> PrepareG2(Negate(key.gamma_g2)),
     delta_g2_neg_pc |-> PrepareG2(Negate(key.gamma_g2)),
     gamma_abc_g1 |-> key.gamma_abc_g1]

\* The prepared key prepare() returns once alpha and beta are paired.
PreparedKey(key, alpha_g1_beta_g2) ==
    [alpha_g1_beta_g2 |-> alpha_g1_beta_g2,
     gamma_g2_neg_pc |-> PrepareG2(Negate(key.gamma_g2)),
     delta_g2_neg_pc |-> PrepareG2(Negate(key.delta_g2)),
     gamma_abc_g1 |-> key.gamma_abc_g1]

PrepareErr(ops) == [res |-> "Err", val |-> NoKey, ops |-> ops]

Prepare(key, fault) ==
    IF Fails("prepare_g1", fault) THEN PrepareErr(<<"prepare_g1">>)
    ELSE IF Fails("prepare_g2", fault) THEN PrepareErr(<<"prepare_g1", "prepare_g2">>)
    ELSE
    LET alpha_g1_pc == PrepareG1(key.alpha_g1)
        beta_g2_pc == PrepareG2(key.beta_g2)
        pair == Pairing(alpha_g1_pc, beta_g2_pc, fault)
        ops1 == <<"prepare_g1", "prepare_g2">> \o pair.ops
    IN IF pair.res = "Err" THEN PrepareErr(ops1)
       ELSE IF Fails("negate", fault) THEN PrepareErr(Append(ops1, "negate"))
       ELSE
       [res |-> "Ok",
        val |-> PreparedKey(key, pair.val),
        ops |-> ops1 \o <<"negate", "prepare_g2", "negate", "prepare_g2">>]

(***************************************************************************)
(* Groth16VerifierGadget::conditional_verify_prepared.                     *)
(***************************************************************************)
Min(a, b) == IF a < b THEN a ELSE b

\* The zip without the skip(1): input i meets entry i.
QueryEntryNoSkip(gamma_abc_g1, i) == gamma_abc_g1[i]

\* The G1 entry zipped with the i-th input: gamma_abc_g1.iter().skip(1).
QueryEntry(gamma_abc_g1, i) == gamma_abc_g1[i + 1]

\* The loop over public_inputs.by_ref().zip(gamma_abc_g1.iter().skip(1)):
\* acc is [res, g_ic, ops], i the index of the next pair, pairs their number.
RECURSIVE AccumulateInputs(_, _, _, _, _, _)
AccumulateInputs(acc, i, pairs, gamma_abc_g1, public_inputs, fault) ==
    IF i > pairs \/ acc.res # "run" THEN acc
    ELSE IF Fails("to_bits", fault)
         THEN [acc EXCEPT !.res = "Err", !.ops = Append(@, "to_bits")]
    ELSE LET b == QueryEntry(gamma_abc_g1, i)
             encoded_input_i == MulBits(b, ToBits(public_inputs[i]), fault)
         IN IF encoded_input_i.res = "Err"
            THEN [acc EXCEPT !.res = "Err", !.ops = @ \o <<"to_bits", "mul_bits">>]
            ELSE AccumulateInputs(
                     [acc EXCEPT !.g_ic = Add(@, encoded_input_i.result),
                                 !.ops = @ \o <<"to_bits", "mul_bits", "add_assign">>],
                     i + 1, pairs, gamma_abc_g1, public_inputs, fault)

\* Zip asks its left iterator first: when the G1 entries run out while an input
\* is left, that input has already been taken from public_inputs.
ZipPairs(nInputs, nEntries) == Min(nInputs, nEntries)
ZipConsumed(nInputs, nEntries) == Min(nInputs, nEntries + 1)

\* The prefix of the calls in `planned` that run when `fault` is injected.
RECURSIVE Executed(_, _)
Executed(planned, fault) ==
    IF planned = <<>> THEN <<>>
    ELSE IF Fails(Head(planned), fault) THEN <<Head(planned)>>
    ELSE <<Head(planned)>> \o Executed(Tail(planned), fault)

\* The Miller loop with g_ic and C exchanged.
TestExpSwapped(key, prf, g_ic) ==
    MillerLoop(<<PrepareG1(prf.a), PrepareG1(prf.c), PrepareG1(g_ic)>>,
               <<PrepareG2(prf.b), key.gamma_g2_neg_pc, key.delta_g2_neg_pc>>)

\* The Miller loop with the prepared -gamma and -delta exchanged.
TestExpGammaDeltaExchanged(key, prf, g_ic) ==
    MillerLoop(<<PrepareG1(prf.a), PrepareG1(g_ic), PrepareG1(prf.c)>>,
               <<PrepareG2(prf.b), key.delta_g2_neg_pc, key.gamma_g2_neg_pc>>)

\* The Miller loop over (A, B), (g_ic, -gamma), (C, -delta).
TestExp(key, prf, g_ic) ==
    MillerLoop(<<PrepareG1(prf.a), PrepareG1(g_ic), PrepareG1(prf.c)>>,
               <<PrepareG2(prf.b), key.gamma_g2_neg_pc, key.delta_g2_neg_pc>>)

\* The equality enforced whatever the condition.
EnforceTestUnconditional(system, test, key, condition) ==
    ConditionalEnforceEqual(system, test, key.alpha_g1_beta_g2, BooleanConstant(TRUE))

\* test.conditional_enforce_equal(&pvk.alpha_g1_beta_g2, condition)
EnforceTest(system, test, key, condition) ==
    ConditionalEnforceEqual(system, test, key.alpha_g1_beta_g2, condition)

\* The assertion on the number of inputs consumed.
InputCountOk(input_len, key, left) ==
    input_len = Len(key.gamma_abc_g1) /\ left = 0

Outcome(res, ops, g_ic, test, system) ==
    [res |-> res, ops |-> ops, g_ic |-> g_ic, test |-> test, cs |-> system]

ConditionalVerifyPrepared(key, public_inputs, prf, condition, system, fault) ==
    LET nEntries == Len(key.gamma_abc_g1) - 1
        pairs == ZipPairs(Len(public_inputs), nEntries)
        acc == AccumulateInputs([res |-> "run", g_ic |-> key.gamma_abc_g1[1], ops |-> <<>>],
                                1, pairs, key.gamma_abc_g1, public_inputs, fault)
        input_len == 1 + pairs
        left == Len(public_inputs) - ZipConsumed(Len(public_inputs), nEntries)
        g_ic == acc.g_ic
        planned == <<"prepare_g1", "prepare_g2", "prepare_g1", "prepare_g1", "miller_loop">>
        ran == Executed(planned, fault)
        test_exp == TestExp(key, prf, g_ic)
        test == FinalExponentiation(test_exp)
    IN IF acc.res = "Err" THEN Outcome("Err", acc.ops, Undef, Undef, system)
       ELSE IF ~InputCountOk(input_len, key, left)
            THEN Outcome("Panic", acc.ops, g_ic, Undef, system)
       ELSE IF ran # planned
            THEN Outcome("Err", acc.ops \o ran, g_ic, Undef, system)
       ELSE IF Fails("final_exponentiation", fault)
            THEN Outcome("Panic", acc.ops \o ran \o <<"final_exponentiation">>,
                         g_ic, Undef, system)
       ELSE IF Fails("conditional_enforce_equal", fault)
            THEN Outcome("Err",
                         acc.ops \o ran \o <<"final_exponentiation", "conditional_enforce_equal">>,
                         g_ic, test, system)
       ELSE Outcome("Ok",
                    acc.ops \o ran \o <<"final_exponentiation", "conditional_enforce_equal">>,
                    g_ic, test,
                    EnforceTest(system, test, key, condition))

(***************************************************************************)
(* Groth16VerifierGadget::conditional_verify and NIZKVerifierGadget::verify*)
(***************************************************************************)
\* conditional_verify handing the constant true on instead of its condition.
ConditionalVerifyAlwaysTrue(key, public_inputs, prf, condition, system, fault) ==
    LET prepared == Prepare(key, fault)
    IN IF prepared.res = "Err"
       THEN Outcome("Err", prepared.ops, Undef, Undef, system)
       ELSE LET out == ConditionalVerifyPrepared(prepared.val, public_inputs, prf,
                                                 BooleanConstant(TRUE), system, fault)
            IN [out EXCEPT !.ops = prepared.ops \o @]

ConditionalVerify(key, public_inputs, prf, condition, system, fault) ==
    LET prepared == Prepare(key, fault)
    IN IF prepared.res = "Err"
       THEN Outcome("Err", prepared.ops, Undef, Undef, system)
       ELSE LET out == ConditionalVerifyPrepared(prepared.val, public_inputs, prf,
                                                 condition, system, fault)
            IN [out EXCEPT !.ops = prepared.ops \o @]

\* verify with the condition fixed to false.
VerifyGatedOff(key, public_inputs, prf, system, fault) ==
    ConditionalVerify(key, public_inputs, prf, BooleanConstant(FALSE), system, fault)

Verify(key, public_inputs, prf, system, fault) ==
    ConditionalVerify(key, public_inputs, prf, BooleanConstant(TRUE), system, fault)

(***************************************************************************)
(* PreparedVerifyingKeyVar::new_variable: allocation of a prepared key     *)
(* from a native one.  A failing value producer fails the allocation.      *)
(***************************************************************************)
NewPreparedKey(produced, native) ==
    IF ~produced
    THEN [res |-> "Err", val |-> NoKey, ops |-> <<>>]
    ELSE [res |-> "Ok",
          val |-> [alpha_g1_beta_g2 |-> native.alpha_g1_beta_g2,
                   gamma_g2_neg_pc |-> native.gamma_g2_neg_pc,
                   delta_g2_neg_pc |-> native.delta_g2_neg_pc,
                   gamma_abc_g1 |-> native.gamma_abc_g1],
          ops |-> <<"new_variable", "new_variable", "new_variable", "new_variable">>]

(***************************************************************************)
(* The native Groth16 verifier and the values a circuit is built from.     *)
(***************************************************************************)
RECURSIVE NativeInputTerm(_, _, _)
NativeInputTerm(gamma_abc_g1, public_inputs, i) ==
    IF i > Len(public_inputs) THEN gamma_abc_g1[1]
    ELSE Add(NativeInputTerm(gamma_abc_g1, public_inputs, i + 1),
             ScalarMul(BitsValue(public_inputs[i]), gamma_abc_g1[i + 1]))

\* e(A, B) = e(alpha, beta) * e(g_ic, gamma) * e(C, delta), GT written additively.
NativeVerify(key, public_inputs, prf) ==
    /\ Len(public_inputs) + 1 = Len(key.gamma_abc_g1)
    /\ NativePairing(prf.a, prf.b) =
           (NativePairing(key.alpha_g1, key.beta_g2)
            + NativePairing(NativeInputTerm(key.gamma_abc_g1, public_inputs, 1), key.gamma_g2)
            + NativePairing(prf.c, key.delta_g2)) % GTOrder

\* A key as the setup generates it: gamma, delta and every input's query
\* point are non-trivial group elements.
GeneratedKey(key) ==
    /\ key.gamma_g2 # Zero
    /\ key.delta_g2 # Zero
    /\ \A i \in 2 .. Len(key.gamma_abc_g1) : key.gamma_abc_g1[i] # Zero

NativePrepared(key) ==
    [alpha_g1_beta_g2 |-> NativePairing(key.alpha_g1, key.beta_g2),
     gamma_g2_neg_pc |-> [g2 |-> Negate(key.gamma_g2)],
     delta_g2_neg_pc |-> [g2 |-> Negate(key.delta_g2)],
     gamma_abc_g1 |-> key.gamma_abc_g1]

\* A prepared key that was not derived from the verifying key at hand.
ForeignPrepared(key) ==
    [alpha_g1_beta_g2 |-> FinalExponentiation(1),
     gamma_g2_neg_pc |-> [g2 |-> key.gamma_g2],
     delta_g2_neg_pc |-> [g2 |-> key.delta_g2],
     gamma_abc_g1 |-> key.gamma_abc_g1]

QueryPoints == {1, 2}
PairPoints == {0, 1, 2}
InputSamples == {<<TRUE, FALSE>>, <<TRUE, TRUE>>}

\* gamma_abc_g1 of every length from 1 to MaxQuery, neighbouring entries
\* differing.
QueryLists ==
    {[i \in 1 .. n |-> IF i % 2 = 1 THEN first ELSE 3 - first] :
        n \in 1 .. MaxQuery, first \in QueryPoints}

VerifyingKeys ==
    {[alpha_g1 |-> 1, beta_g2 |-> 3, gamma_g2 |-> g, delta_g2 |-> 1, gamma_abc_g1 |-> q] :
        g \in {0, 2}, q \in QueryLists}

Proofs == {[a |-> a, b |-> 1, c |-> 2] : a \in G1}

InputLists == SeqsUpTo(InputSamples, MaxQuery)

\* Constraint systems as earlier circuit code may have left them.
PriorSystems == {<<[lhs |-> 1, rhs |-> 1, condition |-> TRUE]>>}

Faults == {NoFault, "to_bits", "select", "double_in_place", "prepare_g1", "prepare_g2",
           "negate", "miller_loop", "final_exponentiation", "conditional_enforce_equal"}

\* nth counts the preparations of vk made in a row; 0 for every other call.
NoCall == [op |-> "none", condition |-> TRUE, fault |-> NoFault, nth |-> 0]
NoRet == [res |-> "none", ops |-> <<>>, g_ic |-> Undef, test |-> Undef]

Returned(out) == [res |-> out.res, ops |-> out.ops, g_ic |-> out.g_ic, test |-> out.test]

(***************************************************************************)
(* The verifier gadget's operations as steps of one circuit construction.  *)
(***************************************************************************)
VerifyCall ==
    /\ call.op = "none"
    /\ \E fault \in Faults :
          LET out == Verify(vk, input, proof, cs, fault)
          IN /\ call' = [op |-> "verify", condition |-> TRUE, fault |-> fault, nth |-> 0]
             /\ ret' = Returned(out)
             /\ cs' = out.cs
    /\ UNCHANGED <<vk, pvk, proof, input>>
    /\ UNCHANGED <<mulVars, pairVars, winVars, packVars, allocVars, constVars, testVars>>

ConditionalVerifyCall ==
    /\ call.op = "none"
    /\ \E condition \in BOOLEAN, fault \in Faults :
          LET out == ConditionalVerify(vk, input, proof, condition, cs, fault)
          IN /\ call' = [op |-> "conditional_verify", condition |-> condition,
                         fault |-> fault, nth |-> 0]
             /\ ret' = Returned(out)
             /\ cs' = out.cs
    /\ UNCHANGED <<vk, pvk, proof, input>>
    /\ UNCHANGED <<mulVars, pairVars, winVars, packVars, allocVars, constVars, testVars>>

\* prepare negating gamma inside the verifying key it is given.
PrepareCallNegatingInPlace ==
    /\ call.op \in {"none", "prepare"}
    /\ call.nth < MaxPrepares
    /\ \E fault \in Faults :
          LET out == Prepare(vk, fault)
          IN /\ call' = [op |-> "prepare", condition |-> TRUE, fault |-> fault,
                         nth |-> call.nth + 1]
             /\ ret' = [res |-> out.res, ops |-> out.ops, g_ic |-> Undef, test |-> Undef]
             /\ pvk' = out.val
    /\ vk' = [vk EXCEPT !.gamma_g2 = Negate(@)]
    /\ UNCHANGED <<proof, input, cs>>
    /\ UNCHANGED <<mulVars, pairVars, winVars, packVars, allocVars, constVars, testVars>>

PrepareCall ==
    /\ call.op \in {"none", "prepare"}
    /\ call.nth < MaxPrepares
    /\ \E fault \in Faults :
          LET out == Prepare(vk, fault)
          IN /\ call' = [op |-> "prepare", condition |-> TRUE, fault |-> fault,
                         nth |-> call.nth + 1]
             /\ ret' = [res |-> out.res, ops |-> out.ops, g_ic |-> Undef, test |-> Undef]
             /\ pvk' = out.val
    /\ UNCHANGED <<vk, proof, input, cs>>
    /\ UNCHANGED <<mulVars, pairVars, winVars, packVars, allocVars, constVars, testVars>>

NewPreparedKeyCall ==
    /\ call.op = "none"
    /\ \E produced \in BOOLEAN, native \in {NativePrepared(vk), ForeignPrepared(vk)} :
          LET out == NewPreparedKey(produced, native)
          IN /\ call' = [op |-> "new_variable", condition |-> TRUE, fault |-> NoFault,
                         nth |-> 0]
             /\ ret' = [res |-> out.res, ops |-> out.ops, g_ic |-> Undef, test |-> Undef]
             /\ pvk' = out.val
    /\ UNCHANGED <<vk, proof, input, cs>>
    /\ UNCHANGED <<mulVars, pairVars, winVars, packVars, allocVars, constVars, testVars>>

ConditionalVerifyPreparedCall ==
    /\ call.op \in {"prepare", "new_variable"}
    /\ ret.res = "Ok"
    /\ \E condition \in BOOLEAN, fault \in Faults :
          LET out == ConditionalVerifyPrepared(pvk, input, proof, condition, cs, fault)
          IN /\ call' = [op |-> "conditional_verify_prepared", condition |-> condition,
                         fault |-> fault, nth |-> 0]
             /\ ret' = Returned(out)
             /\ cs' = out.cs
    /\ UNCHANGED <<vk, pvk, proof, input>>
    /\ UNCHANGED <<mulVars, pairVars, winVars, packVars, allocVars, constVars, testVars>>

\* The parts of the state a specification about other operations leaves idle.
IdleGroth ==
    /\ vk = [alpha_g1 |-> Zero, beta_g2 |-> Zero, gamma_g2 |-> Zero, delta_g2 |-> Zero,
             gamma_abc_g1 |-> <<Zero>>]
    /\ proof = [a |-> Zero, b |-> Zero, c |-> Zero]
    /\ input = <<>>
    /\ pvk = NoKey
    /\ call = NoCall
    /\ ret = NoRet

IdleMul == bits = <<>> /\ mul_out = NoMul

IdlePair == pair_p = <<>> /\ pair_q = <<>> /\ pair_out = NoPair

IdleWin ==
    /\ bases = <<>>
    /\ scalars = <<>>
    /\ window = NoWindow
    /\ crh_input = <<>>
    /\ win_out = NoWin

IdlePack == inner_inputs = <<>> /\ pack_out = NoPack

NoAlloc == [kind |-> "none", mode |-> "none", producer |-> "none", failing |-> 0,
            res |-> "none", err |-> "none"]
IdleAlloc == allocated = <<>> /\ alloc_out = NoAlloc

NoConst == [op |-> "none", handle |-> "none", constant |-> FALSE]
IdleConst == elements = <<>> /\ const_out = NoConst

NoTestIn == [a |-> Zero, b |-> Zero, s |-> 0]
NoTest == [op |-> "none", fault |-> NoFault, res |-> "none"]
IdleTest == test_in = NoTestIn /\ test_out = NoTest

IdleRest == IdleAlloc /\ IdleConst /\ IdleTest

Init ==
    /\ vk \in VerifyingKeys
    /\ proof \in Proofs
    /\ input \in InputLists
    /\ cs \in PriorSystems
    /\ pvk = NoKey
    /\ call = NoCall
    /\ ret = NoRet
    /\ self = Zero
    /\ IdleMul
    /\ IdlePair
    /\ IdleWin
    /\ IdlePack
    /\ IdleRest

Next ==
    \/ VerifyCall
    \/ ConditionalVerifyCall
    \/ PrepareCall
    \/ NewPreparedKeyCall
    \/ ConditionalVerifyPreparedCall

Spec == Init /\ [][Next]_vars

(***************************************************************************)
(* mul_bits on its own: any point, any bit sequence.                       *)
(***************************************************************************)
MulFaults == {NoFault, "select", "double_in_place"}

MulBitsCall ==
    /\ mul_out.res = "none"
    /\ \E fault \in MulFaults : mul_out' = MulBits(self, bits, fault)
    /\ UNCHANGED <<self, bits>>
    /\ UNCHANGED <<grothVars, pairVars, winVars, packVars, allocVars, constVars, testVars>>

InitMul ==
    /\ self \in G1
    /\ bits \in BitSeqs(MaxBits)
    /\ mul_out = NoMul
    /\ cs = <<>>
    /\ IdleGroth
    /\ IdlePair
    /\ IdleWin
    /\ IdlePack
    /\ IdleRest

NextMul == MulBitsCall

SpecMul == InitMul /\ [][NextMul]_vars

(***************************************************************************)
(* The pairing operations on their own: any list of prepared pairs.        *)
(***************************************************************************)
PairFaults == {NoFault, "miller_loop", "final_exponentiation"}

\* pairing(p, q) takes one prepared G1 and one prepared G2 operand.
PairingCall ==
    /\ pair_out.op = "none"
    /\ Len(pair_p) = 1
    /\ \E fault \in PairFaults :
          LET out == Pairing(pair_p[1], pair_q[1], fault)
          IN pair_out' = [op |-> "pairing", fault |-> fault, res |-> out.res,
                          val |-> out.val, ops |-> out.ops]
    /\ UNCHANGED <<pair_p, pair_q>>
    /\ UNCHANGED <<grothVars, mulVars, winVars, packVars, allocVars, constVars, testVars>>

ProductOfPairingsCall ==
    /\ pair_out.op = "none"
    /\ \E fault \in PairFaults :
          LET out == ProductOfPairings(pair_p, pair_q, fault)
          IN pair_out' = [op |-> "product_of_pairings", fault |-> fault, res |-> out.res,
                          val |-> out.val, ops |-> out.ops]
    /\ UNCHANGED <<pair_p, pair_q>>
    /\ UNCHANGED <<grothVars, mulVars, winVars, packVars, allocVars, constVars, testVars>>

\* Lists of n prepared G1 operands and n prepared G2 operands.
PairLists ==
    {pq \in SeqsUpTo(PairPoints, MaxPairs) \X SeqsUpTo(PairPoints, MaxPairs) :
        Len(pq[1]) = Len(pq[2])}

InitPair ==
    /\ \E pq \in PairLists :
          /\ pair_p = [i \in 1 .. Len(pq[1]) |-> PrepareG1(pq[1][i])]
          /\ pair_q = [i \in 1 .. Len(pq[2]) |-> PrepareG2(pq[2][i])]
    /\ pair_out = NoPair
    /\ self = Zero
    /\ cs = <<>>
    /\ IdleGroth
    /\ IdleMul
    /\ IdleWin
    /\ IdlePack
    /\ IdleRest

NextPair == PairingCall \/ ProductOfPairingsCall

SpecPair == InitPair /\ [][NextPair]_vars

(***************************************************************************)
(* The windowed multiplications on their own.                              *)
(***************************************************************************)
WinFaults == {NoFault, "to_bits", "select"}

\* precomputed_base_scalar_mul on self, handed one window's bits zipped with
\* one table's base powers.
PrecomputedBaseScalarMulCall ==
    /\ win_out.op = "none"
    /\ window = NoWindow
    /\ \E w \in 1 .. Len(scalars), t \in 1 .. Len(bases), fault \in {NoFault, "select"} :
          LET pairs == Zip(scalars[w], bases[t])
              out == PrecomputedBaseScalarMul(self, pairs, fault)
          IN /\ win_out' = [op |-> "precomputed_base_scalar_mul", fault |-> fault,
                            pairs |-> pairs, res |-> out.res, err |-> "none",
                            result |-> out.result, trace |-> out.trace]
             /\ self' = out.result
    /\ UNCHANGED <<bases, scalars, window, crh_input, cs>>
    /\ UNCHANGED <<vk, pvk, proof, input, call, ret, bits, mul_out, pairVars, packVars,
                   allocVars, constVars, testVars>>

PrecomputedBaseMultiscalarMulCall ==
    /\ win_out.op = "none"
    /\ window = NoWindow
    /\ \E fault \in WinFaults :
          LET out == PrecomputedBaseMultiscalarMul(bases, scalars, fault)
          IN win_out' = [op |-> "precomputed_base_multiscalar_mul", fault |-> fault,
                         pairs |-> <<>>, res |-> out.res, err |-> "none",
                         result |-> out.result, trace |-> out.trace]
    /\ UNCHANGED <<self, bases, scalars, window, crh_input, cs>>
    /\ UNCHANGED <<vk, pvk, proof, input, call, ret, bits, mul_out, pairVars, packVars,
                   allocVars, constVars, testVars>>

ThreeBitSignedDigitCall ==
    /\ win_out.op = "none"
    /\ window = NoWindow
    /\ LET out == PrecomputedBase3BitSignedDigitScalarMul(bases, scalars)
       IN win_out' = [op |-> "precomputed_base_3_bit_signed_digit_scalar_mul",
                      fault |-> NoFault, pairs |-> <<>>, res |-> out.res,
                      err |-> out.err, result |-> out.result, trace |-> out.trace]
    /\ UNCHANGED <<self, bases, scalars, window, crh_input, cs>>
    /\ UNCHANGED <<vk, pvk, proof, input, call, ret, bits, mul_out, pairVars, packVars,
                   allocVars, constVars, testVars>>

CRHEvaluateCall ==
    /\ win_out.op = "none"
    /\ window # NoWindow
    /\ \E fault \in WinFaults :
          LET out == CRHEvaluate(bases, crh_input, window, fault)
          IN win_out' = [op |-> "evaluate", fault |-> fault, pairs |-> <<>>,
                         res |-> out.res, err |-> out.err, result |-> out.result,
                         trace |-> out.trace]
    /\ UNCHANGED <<self, bases, scalars, window, crh_input, cs>>
    /\ UNCHANGED <<vk, pvk, proof, input, call, ret, bits, mul_out, pairVars, packVars,
                   allocVars, constVars, testVars>>

BoweHopwoodEvaluateCall ==
    /\ win_out.op = "none"
    /\ window # NoWindow
    /\ LET out == BoweHopwoodEvaluate(bases, crh_input, window)
       IN win_out' = [op |-> "bowe_hopwood_evaluate", fault |-> NoFault, pairs |-> <<>>,
                      res |-> out.res, err |-> out.err, result |-> out.result,
                      trace |-> out.trace, called |-> out.called, groups |-> out.groups]
    /\ UNCHANGED <<self, bases, scalars, window, crh_input, cs>>
    /\ UNCHANGED <<vk, pvk, proof, input, call, ret, bits, mul_out, pairVars, packVars,
                   allocVars, constVars, testVars>>

\* Windows of bits and tables of base powers, of matching and of differing
\* lengths.
WindowSamples == {<<>>, <<TRUE>>, <<FALSE, TRUE>>, <<TRUE, TRUE>>}
TableSamples == {<<>>, <<1>>, <<1, 2>>, <<2, 1>>, <<1, 2, 1>>}

\* Pedersen window parameters and inputs: WINDOW_SIZE * NUM_WINDOWS bits are
\* one byte, or no whole number of bytes.
WindowParams == {[size |-> 4, num |-> 2], [size |-> 8, num |-> 1], [size |-> 3, num |-> 2],
                 [size |-> 1, num |-> 1]}
ByteSamples == {0, 1, 170, 255}

\* The table of generator powers of window w, n entries long.
GeneratorTable(w, n) == [j \in 1 .. n |-> ((w + j) % (Order - 1)) + 1]

\* Parameters with a table of WINDOW_SIZE powers for each of the NUM_WINDOWS
\* windows, and parameters that were set up for other window sizes.
GeneratorTables(w) ==
    {[i \in 1 .. w.num |-> GeneratorTable(i, w.size)],
     [i \in 1 .. w.num |-> GeneratorTable(i, w.size - 1)],
     [i \in 1 .. (w.num - 1) |-> GeneratorTable(i, w.size)],
     [i \in 1 .. (w.num + 1) |-> GeneratorTable(i, w.size)]}

InitWin ==
    /\ \/ /\ scalars \in SeqsUpTo(WindowSamples, MaxWindows)
          /\ bases \in SeqsUpTo(TableSamples, MaxWindows)
          /\ self \in G1
          /\ window = NoWindow
          /\ crh_input = <<>>
       \/ /\ window \in WindowParams
          /\ crh_input \in SeqsUpTo(ByteSamples, MaxBytes)
          /\ bases \in GeneratorTables(window)
          /\ scalars = <<>>
          /\ self = Zero
    /\ win_out = NoWin
    /\ cs \in PriorSystems
    /\ IdleGroth
    /\ IdleMul
    /\ IdlePair
    /\ IdlePack
    /\ IdleRest

NextWin ==
    \/ PrecomputedBaseScalarMulCall
    \/ PrecomputedBaseMultiscalarMulCall
    \/ ThreeBitSignedDigitCall
    \/ CRHEvaluateCall
    \/ BoweHopwoodEvaluateCall

SpecWin == InitWin /\ [][NextWin]_vars

(***************************************************************************)
(* The input packing of the recursive circuits on its own.                 *)
(***************************************************************************)
MiddleInputsCall ==
    /\ pack_out.op = "none"
    /\ \E fault \in {NoFault, "new_input_vec"} :
          LET out == MiddleInputs(inner_inputs, fault)
          IN pack_out' = [op |-> "middle", fault |-> fault, res |-> out.res,
                          bytes |-> out.bytes, bits |-> out.bits, gadgets |-> out.gadgets]
    /\ UNCHANGED inner_inputs
    /\ UNCHANGED <<grothVars, mulVars, pairVars, winVars, allocVars, constVars, testVars>>

OuterInputsCall ==
    /\ pack_out.op = "none"
    /\ \E fault \in {NoFault, "new_input", "to_bits"} :
          LET out == OuterInputs(inner_inputs, fault)
          IN pack_out' = [op |-> "outer", fault |-> fault, res |-> out.res,
                          bytes |-> out.bytes, bits |-> out.bits, gadgets |-> out.gadgets]
    /\ UNCHANGED inner_inputs
    /\ UNCHANGED <<grothVars, mulVars, pairVars, winVars, allocVars, constVars, testVars>>

\* Field elements: limbs with bits set in every byte, the largest value of
\* FieldBits bits, and zero.
ElementSeeds == {0, 1, 2, 3, 4}
SampleLimb(seed, k) ==
    LET top == IF k = NumLimbs THEN Pow2(LimbBits - FieldSlack) ELSE Pow2(LimbBits)
    IN IF seed = 0 THEN 0
       ELSE IF seed = 1 THEN top - 1
       ELSE (seed * 4099 + k * 263) % top
ElementSamples == {[k \in 1 .. NumLimbs |-> SampleLimb(seed, k)] : seed \in ElementSeeds}

InitPack ==
    /\ inner_inputs \in SeqsUpTo(ElementSamples, MaxInputs)
    /\ pack_out = NoPack
    /\ self = Zero
    /\ cs = <<>>
    /\ IdleGroth
    /\ IdleMul
    /\ IdlePair
    /\ IdleWin
    /\ IdleRest

NextPack == MiddleInputsCall \/ OuterInputsCall

SpecPack == InitPack /\ [][NextPack]_vars

(***************************************************************************)
(* Recursive composition: OuterCircuit verifying a MiddleCircuit proof.    *)
(***************************************************************************)
\* [u8]::to_field_elements: the bytes in pieces of floor(CAPACITY / 8) bytes,
\* each piece read as a little-endian field element.  An element is kept
\* as the bytes it was read from.
ToFieldElements(input_bytes) == Chunks(input_bytes, Capacity \div ByteBits)

\* MiddleCircuit::inputs producing one field element per inner input.
MiddleCircuitInputsPerInput(inputs) == Chunks(InputBytes(inputs), NumLimbs * LimbBytes)

\* MiddleCircuit::inputs: the public inputs of a MiddleCircuit proof.
MiddleCircuitInputs(inputs) == ToFieldElements(InputBytes(inputs))

\* The boolean values of a sequence of bit gadgets.
BitValues(gadgets) == [i \in 1 .. Len(gadgets) |-> [j \in 1 .. Len(gadgets[i]) |-> gadgets[i][j].val]]

\* OuterCircuit::generate_constraints.  `flip` is <<0, 0>> for the honest
\* assignment and <<i, j>> for an assignment in which bit j of the i-th
\* repacked sequence is the opposite of the honest one.
OuterGenerateConstraints(inputs, key, prf, flip, system, fault) ==
    LET packed == OuterInputs(inputs, fault)
        honest == BitValues(packed.gadgets)
        input_gadgets == IF flip = <<0, 0>> THEN honest
                         ELSE [honest EXCEPT ![flip[1]] = [@ EXCEPT ![flip[2]] = ~@]]
    IN IF packed.res = "Err"
       THEN [packed |-> packed, input_gadgets |-> <<>>,
             out |-> Outcome("Err", <<>>, Undef, Undef, system)]
       ELSE IF Fails("new_witness", fault)
       THEN [packed |-> packed, input_gadgets |-> input_gadgets,
             out |-> Outcome("Err", <<"new_witness">>, Undef, Undef, system)]
       ELSE [packed |-> packed, input_gadgets |-> input_gadgets,
             out |-> Verify(key, input_gadgets, prf, system, fault)]

RecFaults == {NoFault, "to_bits", "new_witness", "miller_loop"}

\* The positions a corrupted assignment may differ in: the first and the
\* last stream bit of each repacked sequence.
Flips(inputs) ==
    LET stream == Len(inputs) * NumLimbs * LimbBits
        count == (stream + MaxSize - 1) \div MaxSize
    IN {<<0, 0>>} \cup
       UNION {{<<i, 1>>, <<i, IF i < count THEN MaxSize ELSE stream - (count - 1) * MaxSize>>} :
                 i \in 1 .. count}

OuterCircuitCall ==
    /\ call.op = "none"
    /\ \E fault \in RecFaults : \E flip \in Flips(inner_inputs) :
          LET run == OuterGenerateConstraints(inner_inputs, vk, proof, flip, cs, fault)
          IN /\ call' = [op |-> "outer_circuit", condition |-> TRUE, fault |-> fault,
                         nth |-> 0, flip |-> flip]
             /\ pack_out' = [op |-> "outer", fault |-> fault, res |-> run.packed.res,
                             bytes |-> run.packed.bytes, bits |-> run.packed.bits,
                             gadgets |-> run.packed.gadgets]
             /\ input' = run.input_gadgets
             /\ ret' = Returned(run.out)
             /\ cs' = run.out.cs
    /\ UNCHANGED <<vk, pvk, proof, inner_inputs>>
    /\ UNCHANGED <<mulVars, pairVars, winVars, allocVars, constVars, testVars>>

\* The scalar a little-endian bit sequence stands for, in the scalar field.
RECURSIVE BitsScalar(_)
BitsScalar(bs) ==
    IF bs = <<>> THEN 0
    ELSE ((IF Head(bs) THEN 1 ELSE 0) + 2 * BitsScalar(Tail(bs))) % Order

RECURSIVE NativeElementTerm(_, _, _)
NativeElementTerm(gamma_abc_g1, field_elements, i) ==
    IF i > Len(field_elements) THEN gamma_abc_g1[1]
    ELSE Add(NativeElementTerm(gamma_abc_g1, field_elements, i + 1),
             ScalarMul(BitsScalar(FlatBits(field_elements[i])), gamma_abc_g1[i + 1]))

\* The native Groth16 check of a MiddleCircuit proof against its public inputs.
ValidMiddleProof(key, field_elements, prf) ==
    /\ Len(field_elements) + 1 = Len(key.gamma_abc_g1)
    /\ NativePairing(prf.a, prf.b) =
           (NativePairing(key.alpha_g1, key.beta_g2)
            + NativePairing(NativeElementTerm(key.gamma_abc_g1, field_elements, 1), key.gamma_g2)
            + NativePairing(prf.c, key.delta_g2)) % GTOrder

\* The verifying key of a MiddleCircuit with n public inputs, as the setup
\* generates it.
MiddleKey(first, n) ==
    [alpha_g1 |-> 1, beta_g2 |-> 3, gamma_g2 |-> 2, delta_g2 |-> 1,
     gamma_abc_g1 |-> [i \in 1 .. (n + 1) |-> IF i % 2 = 1 THEN first ELSE 3 - first]]

\* Inner inputs with bits set in every byte, and the largest value.
RecSamples == {[k \in 1 .. NumLimbs |-> SampleLimb(seed, k)] : seed \in {1, 3}}

\* The middle proof is the valid one for the key and the inputs, or one that
\* differs from it in its first element.
InitRec ==
    /\ inner_inputs \in SeqsUpTo(RecSamples, MaxInputs)
    /\ vk \in {MiddleKey(first, Len(MiddleCircuitInputs(inner_inputs))) : first \in QueryPoints}
    /\ proof \in {prf \in Proofs :
                    \/ ValidMiddleProof(vk, MiddleCircuitInputs(inner_inputs), prf)
                    \/ ValidMiddleProof(vk, MiddleCircuitInputs(inner_inputs),
                                        [prf EXCEPT !.a = Add(@, 1)])}
    /\ input = <<>>
    /\ cs = <<>>
    /\ pvk = NoKey
    /\ call = NoCall
    /\ ret = NoRet
    /\ pack_out = NoPack
    /\ self = Zero
    /\ IdleMul
    /\ IdlePair
    /\ IdleWin
    /\ IdleRest

NextRec == OuterCircuitCall

SpecRec == InitRec /\ [][NextRec]_vars

(***************************************************************************)
(* AllocVar::new_variable of VerifyingKeyVar, PreparedVerifyingKeyVar and  *)
(* ProofVar.  producer is "Ok" or the error the value producer f returns;  *)
(* failing is the position of the component whose allocation fails, 0 when *)
(* none does.  The result carries the variables in the constraint system.  *)
(***************************************************************************)
\* The components allocated one after the other, each with `?`.
RECURSIVE AllocateInOrder(_, _, _, _, _)
AllocateInOrder(components, i, mode, failing, variables) ==
    IF i > Len(components) THEN [res |-> "Ok", err |-> "none", allocated |-> variables]
    ELSE IF i = failing
         THEN [res |-> "Err", err |-> "AllocationFailed", allocated |-> variables]
    ELSE AllocateInOrder(components, i + 1, mode, failing,
                         Append(variables, [name |-> components[i], mode |-> mode]))

PreparedVerifyingKeyComponents ==
    <<"alpha_g1_beta_g2", "gamma_g2_neg_pc", "delta_g2_neg_pc", "gamma_abc_g1">>
VerifyingKeyComponents == <<"alpha_g1", "beta_g2", "gamma_g2", "delta_g2", "gamma_abc_g1">>
ProofComponents == <<"a", "b", "c">>

\* The allocation going on with a default value when f failed.
AndThenAllocateDefault(components, producer, mode, failing, variables) ==
    AllocateInOrder(components, 1, mode, failing, variables)

\* f().and_then(|value| { ... }): the closure runs only when f succeeded.
AndThenAllocate(components, producer, mode, failing, variables) ==
    IF producer # "Ok"
    THEN [res |-> "Err", err |-> producer, allocated |-> variables]
    ELSE AllocateInOrder(components, 1, mode, failing, variables)

NewPreparedVerifyingKeyVar(producer, mode, failing, variables) ==
    AndThenAllocate(PreparedVerifyingKeyComponents, producer, mode, failing, variables)

NewVerifyingKeyVar(producer, mode, failing, variables) ==
    AndThenAllocate(VerifyingKeyComponents, producer, mode, failing, variables)

NewProofVar(producer, mode, failing, variables) ==
    AndThenAllocate(ProofComponents, producer, mode, failing, variables)

Components(kind) ==
    IF kind = "PreparedVerifyingKeyVar" THEN PreparedVerifyingKeyComponents
    ELSE IF kind = "VerifyingKeyVar" THEN VerifyingKeyComponents
    ELSE ProofComponents

NewVariable(kind, producer, mode, failing, variables) ==
    IF kind = "PreparedVerifyingKeyVar"
    THEN NewPreparedVerifyingKeyVar(producer, mode, failing, variables)
    ELSE IF kind = "VerifyingKeyVar"
    THEN NewVerifyingKeyVar(producer, mode, failing, variables)
    ELSE NewProofVar(producer, mode, failing, variables)

Kinds == {"PreparedVerifyingKeyVar", "VerifyingKeyVar", "ProofVar"}
AllocationModes == {"Constant", "Input", "Witness"}
Producers == {"Ok", "AssignmentMissing", "Unsatisfiable"}

NewVariableCall ==
    /\ alloc_out.kind = "none"
    /\ \E kind \in Kinds, mode \in AllocationModes, producer \in Producers :
          \E failing \in 0 .. Len(Components(kind)) :
             LET out == NewVariable(kind, producer, mode, failing, allocated)
             IN /\ alloc_out' = [kind |-> kind, mode |-> mode, producer |-> producer,
                                 failing |-> failing, res |-> out.res, err |-> out.err]
                /\ allocated' = out.allocated
    /\ UNCHANGED <<grothVars, mulVars, pairVars, winVars, packVars, constVars, testVars>>

InitAlloc ==
    /\ allocated \in {<<>>, <<[name |-> "x", mode |-> "Input"]>>}
    /\ alloc_out = NoAlloc
    /\ self = Zero
    /\ cs = <<>>
    /\ IdleGroth
    /\ IdleMul
    /\ IdlePair
    /\ IdleWin
    /\ IdlePack
    /\ IdleConst
    /\ IdleTest

NextAlloc == NewVariableCall

SpecAlloc == InitAlloc /\ [][NextAlloc]_vars

(***************************************************************************)
(* R1CSVar: cs() and is_constant.  What cs() reports is NoHandle (the      *)
(* Option is None), NoSystem (Some(ConstraintSystemRef::None), the         *)
(* sentinel) or the name of a real constraint system.                      *)
(***************************************************************************)
MaxElements == 3

NoHandle == "NoHandle"
NoSystem == "None"
RealSystems == {"cs1", "cs2"}
Handles == {NoHandle, NoSystem} \cup RealSystems

\* is_constant answering true only when there is no handle at all.
IsConstantWithoutHandleOnly(handle) == handle = NoHandle

\* self.cs().map_or(true, |cs| cs == ConstraintSystemRef::None)
IsConstant(handle) == IF handle = NoHandle THEN TRUE ELSE handle = NoSystem

\* Option::or: the left side when it is Some, else the right side.
OptionOr(left, right) == IF left # NoHandle THEN left ELSE right

\* cs() of a slice: result = var.cs().or(result) for each var in turn.
RECURSIVE SliceLoop(_, _, _)
SliceLoop(slice, i, result) ==
    IF i > Len(slice) THEN result
    ELSE SliceLoop(slice, i + 1, OptionOr(slice[i], result))

SliceCs(slice) == SliceLoop(slice, 1, NoHandle)

\* cs() of a reference: (*self).cs()
RefCs(handle) == handle

IsConstantCall ==
    /\ const_out.op = "none"
    /\ \E i \in 1 .. Len(elements) :
          \/ const_out' = [op |-> "value", index |-> i, handle |-> elements[i],
                           constant |-> IsConstant(elements[i])]
          \/ const_out' = [op |-> "reference", index |-> i, handle |-> RefCs(elements[i]),
                           constant |-> IsConstant(RefCs(elements[i]))]
    /\ UNCHANGED elements
    /\ UNCHANGED <<grothVars, mulVars, pairVars, winVars, packVars, allocVars, testVars>>

SliceIsConstantCall ==
    /\ const_out.op = "none"
    /\ const_out' = [op |-> "slice", index |-> 0, handle |-> SliceCs(elements),
                     constant |-> IsConstant(SliceCs(elements))]
    /\ UNCHANGED elements
    /\ UNCHANGED <<grothVars, mulVars, pairVars, winVars, packVars, allocVars, testVars>>

InitConst ==
    /\ elements \in SeqsUpTo(Handles, MaxElements)
    /\ const_out = NoConst
    /\ self = Zero
    /\ cs = <<>>
    /\ IdleGroth
    /\ IdleMul
    /\ IdlePair
    /\ IdleWin
    /\ IdlePack
    /\ IdleAlloc
    /\ IdleTest

NextConst == IsConstantCall \/ SliceIsConstantCall

SpecConst == InitConst /\ [][NextConst]_vars

(***************************************************************************)
(* The gadget tests: pairing::tests::bilinearity_test and                  *)
(* groups::test::group_test, on freshly drawn values in a new system.      *)
(***************************************************************************)
ReprBits == 4       \* the bits of a scalar's representation

\* BitIterator::new(s.into_repr()): the bits of s, most significant first.
BitIterator(s) == Reverse(IntoBitsLe(s, ReprBits))

\* GTVar::pow over big-endian bits: square, then multiply when the bit is
\* set; GT is written additively.
RECURSIVE PowLoop(_, _, _)
PowLoop(res, base, exponent) ==
    IF exponent = <<>> THEN res
    ELSE LET squared == (res + res) % GTOrder
         IN PowLoop(IF Head(exponent) THEN (squared + base) % GTOrder ELSE squared,
                    base, Tail(exponent))

Pow(base, exponent) == PowLoop(0, base, exponent)

\* pairing(a, b).pow(s) natively.
NativePow(base, s) == (s * base) % GTOrder

TestResult(res, system, values) == [res |-> res, cs |-> system, values |-> values]

BilinearityTest(a, b, s, fault) ==
    LET sa == ScalarMul(s, a)
        sb == ScalarMul(s, b)
        a_prep_g == PrepareG1(a)
        b_prep_g == PrepareG2(b)
        sa_prep_g == PrepareG1(sa)
        sb_prep_g == PrepareG2(sb)
        ans1_g == Pairing(sa_prep_g, b_prep_g, fault)
        ans1_n == NativePairing(sa, b)
        ans2_g == Pairing(a_prep_g, sb_prep_g, fault)
        ans2_n == NativePairing(a, sb)
        s_iter == [i \in 1 .. ReprBits |-> BooleanConstant(BitIterator(s)[i])]
        paired == Pairing(a_prep_g, b_prep_g, fault)
        ans3_n == NativePow(NativePairing(a, b), s)
        ans3_g == Pow(paired.val, s_iter)
        first == ConditionalEnforceEqual(<<>>, ans1_g.val, ans2_g.val, TRUE)
        second == ConditionalEnforceEqual(first, ans2_g.val, ans3_g, TRUE)
        values == [ans1_g |-> ans1_g.val, ans2_g |-> ans2_g.val, ans3_g |-> ans3_g,
                   ans1_n |-> ans1_n, ans2_n |-> ans2_n, ans3_n |-> ans3_n]
    IN IF Fails("prepare_g1", fault) \/ Fails("prepare_g2", fault) \/ ans1_g.res = "Err"
       THEN TestResult("Err", <<>>, [none |-> Undef])
       ELSE IF Fails("pow", fault) THEN TestResult("Err", <<>>, [none |-> Undef])
       ELSE IF Fails("enforce_equal", fault) THEN TestResult("Err", <<>>, values)
       ELSE IF \/ ans1_g.val # ans1_n \/ ans2_g.val # ans2_n \/ ans3_g # ans3_n
               \/ ans1_n # ans2_n \/ ans2_n # ans3_n
               \/ ans1_g.val # ans3_g \/ ans1_g.val # ans2_g.val \/ ans2_g.val # ans3_g
               \/ ~IsSatisfied(second)
            THEN TestResult("Panic", second, values)
       ELSE TestResult("Ok", second, values)

\* &a - &b
Sub(a, b) == Add(a, Negate(b))

\* double leaving out double_in_place.
DoubleReturningClone(a, fault) == [res |-> "Ok", result |-> a, self |-> a]

\* CurveVar::double: double_in_place on a clone; self is not touched.
Double(a, fault) ==
    LET result == a
    IN IF Fails("double_in_place", fault)
       THEN [res |-> "Err", result |-> Undef, self |-> a]
       ELSE [res |-> "Ok", result |-> DoubleInPlace(result), self |-> a]

\* C::double of the curve library.
NativeDouble(a) == (2 * a) % Order

GroupTest(a, b, fault) ==
    LET zero == Zero
        a_b == Add(a, b)
        b_a == Add(b, a)
        first == ConditionalEnforceEqual(<<>>, a_b, b_a, TRUE)
        ab_a == Add(a_b, a)
        a_ba == Add(a, b_a)
        second == ConditionalEnforceEqual(first, ab_a, a_ba, TRUE)
        a_a == Add(a, a)
        a2 == DoubleInPlace(a)
        third == ConditionalEnforceEqual(second, a2, a_a, TRUE)
        b2 == DoubleInPlace(b)
        b_b == Add(b, b)
        fourth == ConditionalEnforceEqual(third, b2, b_b, TRUE)
        doubled == Double(a, fault)
        values == [a |-> doubled.self, plus_zero |-> Add(a, zero), minus_zero |-> Sub(a, zero),
                   minus_self |-> Sub(a, a), a_b |-> a_b, b_a |-> b_a, ab_a |-> ab_a,
                   a_ba |-> a_ba, a_a |-> a_a, a2 |-> a2, b2 |-> b2, b_b |-> b_b,
                   doubled |-> doubled.result]
    IN IF \/ Add(a, zero) # a \/ Sub(a, zero) # a \/ Sub(a, a) # zero \/ a_b # b_a
       THEN TestResult("Panic", <<>>, values)
       ELSE IF Fails("enforce_equal", fault) THEN TestResult("Err", <<>>, values)
       ELSE IF ab_a # a_ba THEN TestResult("Panic", first, values)
       ELSE IF Fails("double_in_place", fault) THEN TestResult("Err", second, values)
       ELSE IF \/ a2 # NativeDouble(a) \/ a_a # NativeDouble(a) \/ a2 # a_a \/ b2 # b_b
               \/ doubled.result # a_a \/ ~IsSatisfied(fourth)
            THEN TestResult("Panic", fourth, values)
       ELSE TestResult("Ok", fourth, values)

BilinearityFaults == {NoFault, "prepare_g1", "miller_loop", "pow", "enforce_equal"}
GroupFaults == {NoFault, "double_in_place", "enforce_equal"}

BilinearityTestCall ==
    /\ test_out.op = "none"
    /\ \E fault \in BilinearityFaults :
          LET out == BilinearityTest(test_in.a, test_in.b, test_in.s, fault)
          IN /\ test_out' = [op |-> "bilinearity_test", fault |-> fault, res |-> out.res,
                             values |-> out.values]
             /\ cs' = out.cs
    /\ UNCHANGED test_in
    /\ UNCHANGED <<vk, pvk, proof, input, call, ret>>
    /\ UNCHANGED <<mulVars, pairVars, winVars, packVars, allocVars, constVars>>

GroupTestCall ==
    /\ test_out.op = "none"
    /\ \E fault \in GroupFaults :
          LET out == GroupTest(test_in.a, test_in.b, fault)
          IN /\ test_out' = [op |-> "group_test", fault |-> fault, res |-> out.res,
                             values |-> out.values]
             /\ cs' = out.cs
    /\ UNCHANGED test_in
    /\ UNCHANGED <<vk, pvk, proof, input, call, ret>>
    /\ UNCHANGED <<mulVars, pairVars, winVars, packVars, allocVars, constVars>>

InitTest ==
    /\ test_in \in [a : G1, b : G2, s : 0 .. (Order - 1)]
    /\ test_out = NoTest
    /\ self = Zero
    /\ cs = <<>>
    /\ IdleGroth
    /\ IdleMul
    /\ IdlePair
    /\ IdleWin
    /\ IdlePack
    /\ IdleAlloc
    /\ IdleConst

NextTest == BilinearityTestCall \/ GroupTestCall

SpecTest == InitTest /\ [][NextTest]_vars

(***************************************************************************)
(* Properties of the verifier gadget (specification Spec).                 *)
(***************************************************************************)
RightCount(key) == Len(input) = Len(key.gamma_abc_g1) - 1

FlipBit(public_inputs, i, j) ==
    [public_inputs EXCEPT ![i] = [@ EXCEPT ![j] = ~@]]

\* The pairing equation over the prepared key's stored values, with the
\* public-input term computed natively.
PreparedEquation(key, public_inputs, prf) ==
    FinalExponentiation(
        MillerLoop(<<[g1 |-> prf.a],
                     [g1 |-> NativeInputTerm(key.gamma_abc_g1, public_inputs, 1)],
                     [g1 |-> prf.c]>>,
                   <<[g2 |-> prf.b], key.gamma_g2_neg_pc, key.delta_g2_neg_pc>>))
    = key.alpha_g1_beta_g2

\* C1: conditional_verify_prepared with condition = true and inputs of the
\* right length adds one equality constraint, and that constraint is
\* satisfied iff final_exponentiation(miller_loop([A, g_ic, C],
\* [B, -gamma, -delta])) equals the prepared key's stored pairing(alpha, beta);
\* for a key prepared from vk that is e(A,B) e(g_ic,-gamma) e(C,-delta) =
\* e(alpha,beta), the native verification equation.
C1_EqualityIffPairingEquation ==
    (/\ call.op = "conditional_verify_prepared"
     /\ call.condition
     /\ ret.res = "Ok"
     /\ RightCount(pvk))
    => LET added == cs[Len(cs)]
       IN /\ \E prior \in PriorSystems : cs = Append(prior, added)
          /\ added.condition
          /\ ConstraintHolds(added) <=> PreparedEquation(pvk, input, proof)
          /\ pvk = NativePrepared(vk)
                => (ConstraintHolds(added) <=> NativeVerify(vk, input, proof))

C1_Witness ==
    /\ call.op = "conditional_verify_prepared"
    /\ call.condition
    /\ ret.res = "Ok"
    /\ Len(input) = 2
    /\ RightCount(pvk)
    /\ pvk = NativePrepared(vk)
    /\ NativeVerify(vk, input, proof)
    /\ IsSatisfied(cs)

\* C2: Groth16 round trip.  For a generated key, verify on a proof that is
\* natively valid for the inputs leaves the constraint system satisfied, and
\* verify on inputs that differ in exactly one bit from inputs the proof is
\* valid for leaves it unsatisfied.
C2_RoundTrip ==
    (call.op = "verify" /\ call.fault = NoFault /\ GeneratedKey(vk))
    => /\ NativeVerify(vk, input, proof) => (ret.res = "Ok" /\ IsSatisfied(cs))
       /\ \A i \in 1 .. Len(input) : \A j \in 1 .. Len(input[i]) :
             NativeVerify(vk, FlipBit(input, i, j), proof)
                => (ret.res = "Ok" /\ ~IsSatisfied(cs))

C2_Witness ==
    /\ call.op = "verify"
    /\ call.fault = NoFault
    /\ GeneratedKey(vk)
    /\ Len(input) = 2
    /\ input[1] # input[2]
    /\ NativeVerify(vk, input, proof)
    /\ ret.res = "Ok"
    /\ IsSatisfied(cs)

\* C3: conditional_verify_prepared fails with an assertion for every number of
\* inputs other than len(gamma_abc_g1) - 1, fewer or more (exactly one more
\* included), and completes only for exactly that number.
C3_AssertsOnEveryWrongCount ==
    (call.op = "conditional_verify_prepared" /\ call.fault = NoFault)
    => (ret.res = "Panic" <=> ~RightCount(pvk))

\* C4: conditional_verify with condition = false leaves a previously
\* satisfied constraint system satisfied, whatever the key, inputs and proof.
C4_GatedOffKeepsSatisfied ==
    [][(/\ call'.op = "conditional_verify"
        /\ ~call'.condition
        /\ call.op = "none"
        /\ IsSatisfied(cs))
       => IsSatisfied(cs')]_vars

C4_Witness ==
    /\ call.op = "conditional_verify"
    /\ ~call.condition
    /\ ret.res = "Ok"
    /\ RightCount(vk)
    /\ ~NativeVerify(vk, input, proof)
    /\ Len(cs) = 2
    /\ ~cs[2].condition
    /\ cs[2].lhs # cs[2].rhs
    /\ IsSatisfied(cs)

\* C5: verify(vk, input, proof) gives the result and the constraint system
\* that conditional_verify(vk, input, proof, constant true) gives.
C5_VerifyIsConditionalVerifyTrue ==
    [][call'.op = "verify"
       => LET out == ConditionalVerify(vk, input, proof, BooleanConstant(TRUE),
                                       cs, call'.fault)
          IN /\ ret' = Returned(out)
             /\ cs' = out.cs
             /\ IsSatisfied(cs') <=> IsSatisfied(out.cs)]_vars

C5_Witness ==
    /\ call.op = "verify"
    /\ ret.res = "Ok"
    /\ RightCount(vk)
    /\ ~NativeVerify(vk, input, proof)
    /\ ~IsSatisfied(cs)

\* C6: conditional_verify gives what prepare followed by
\* conditional_verify_prepared gives; when prepare fails its error is returned
\* and nothing of the prepared check runs.
C6_ConditionalVerifyIsPrepareThenPrepared ==
    [][call'.op = "conditional_verify"
       => LET prepared == Prepare(vk, call'.fault)
              out == ConditionalVerifyPrepared(prepared.val, input, proof,
                                               call'.condition, cs, call'.fault)
          IN IF prepared.res = "Err"
             THEN /\ ret'.res = "Err"
                  /\ ret'.ops = prepared.ops
                  /\ cs' = cs
             ELSE /\ ret'.res = out.res
                  /\ ret'.ops = prepared.ops \o out.ops
                  /\ ret'.g_ic = out.g_ic
                  /\ ret'.test = out.test
                  /\ cs' = out.cs]_vars

C6_Witness ==
    /\ call.op = "conditional_verify"
    /\ call.fault = "negate"
    /\ ret.res = "Err"
    /\ ret.ops = <<"prepare_g1", "prepare_g2", "miller_loop", "final_exponentiation",
                   "negate">>
    /\ cs \in PriorSystems

\* C7: the public-input term is g_ic = gamma_abc_g1[0] + the sum over the
\* inputs i of gamma_abc_g1[i+1] multiplied by the value of input i's bits.
C7_InputTerm ==
    (/\ call.op = "conditional_verify_prepared"
     /\ ret.res = "Ok"
     /\ RightCount(pvk))
    => ret.g_ic = NativeInputTerm(pvk.gamma_abc_g1, input, 1)

C7_Witness ==
    /\ call.op = "conditional_verify_prepared"
    /\ ret.res = "Ok"
    /\ RightCount(pvk)
    /\ Len(input) = 2
    /\ input[1] # input[2]
    /\ pvk.gamma_abc_g1[2] # pvk.gamma_abc_g1[3]
    /\ pvk.gamma_abc_g1[1] # Zero
    /\ ret.g_ic # pvk.gamma_abc_g1[1]

(***************************************************************************)
(* Properties of mul_bits (specification SpecMul).                         *)
(***************************************************************************)
RECURSIVE Shape(_)
Shape(n) == IF n = 0 THEN <<>> ELSE <<"add", "select", "double_in_place">> \o Shape(n - 1)

\* C8: mul_bits returns k * P for k the little-endian value of the bits, and
\* leaves P as it was.
C8_MulBitsIsScalarMul ==
    [][mul_out'.res = "Ok"
       => /\ mul_out'.result = ScalarMul(BitsValue(bits), self)
          /\ self' = self]_vars

C8_Witness ==
    /\ mul_out.res = "Ok"
    /\ bits = <<FALSE, TRUE, TRUE>>
    /\ self = 2
    /\ mul_out.result = ScalarMul(6, 2)

\* C9: the gadget operations mul_bits issues depend on the length of the bit
\* sequence only: per bit one addition, one select, one doubling, in this
\* order, the same for any two bit sequences of one length.
C9_ShapeIndependentOfBits ==
    mul_out.res = "Ok"
    => /\ mul_out.trace = Shape(Len(bits))
       /\ \A other \in BitSeqs(Len(bits)) :
             Len(other) = Len(bits)
                => MulBits(self, other, NoFault).trace = mul_out.trace

C9_Witness ==
    /\ mul_out.res = "Ok"
    /\ bits = <<TRUE, FALSE>>
    /\ Len(mul_out.trace) = 6

\* C10: mul_bits never asks the addition law to add the running power into a
\* result that is the identity element.
C10_NeverAddsIntoIdentity ==
    \A i \in 1 .. Len(mul_out.adds) : mul_out.adds[i].result # Zero

(***************************************************************************)
(* Properties of key preparation and of the prepared check's sequence of   *)
(* operations (specification Spec).                                        *)
(***************************************************************************)
RECURSIVE OpCount(_, _)
OpCount(op, ops) ==
    IF ops = <<>> THEN 0
    ELSE (IF Head(ops) = op THEN 1 ELSE 0) + OpCount(op, Tail(ops))

\* C11: a successful prepare runs one pairing (prepared alpha with prepared
\* beta), then one negation and one G2 preparation for gamma and one of each
\* for delta; it returns {pairing(alpha, beta), prepared(-gamma),
\* prepared(-delta), the key's gamma_abc_g1} and leaves the verifying key as
\* it was.  A later conditional_verify_prepared negates nothing and prepares
\* no G2 element but the proof's B.
C11_PrepareOnce ==
    [][/\ (call'.op = "prepare" /\ ret'.res = "Ok")
            => /\ ret'.ops = <<"prepare_g1", "prepare_g2", "miller_loop",
                               "final_exponentiation",
                               "negate", "prepare_g2", "negate", "prepare_g2">>
               /\ pvk'.alpha_g1_beta_g2
                      = Pairing(PrepareG1(vk.alpha_g1), PrepareG2(vk.beta_g2), NoFault).val
               /\ pvk'.gamma_g2_neg_pc = PrepareG2(Negate(vk.gamma_g2))
               /\ pvk'.delta_g2_neg_pc = PrepareG2(Negate(vk.delta_g2))
               /\ Len(pvk'.gamma_abc_g1) = Len(vk.gamma_abc_g1)
               /\ \A i \in 1 .. Len(vk.gamma_abc_g1) :
                     pvk'.gamma_abc_g1[i] = vk.gamma_abc_g1[i]
               /\ vk' = vk
       /\ call'.op = "conditional_verify_prepared"
            => /\ OpCount("negate", ret'.ops) = 0
               /\ OpCount("prepare_g2", ret'.ops) <= 1]_vars

C11_Witness ==
    /\ call.op = "prepare"
    /\ ret.res = "Ok"
    /\ vk.gamma_g2 # Zero
    /\ pvk.gamma_g2_neg_pc # pvk.delta_g2_neg_pc
    /\ pvk.gamma_g2_neg_pc.g2 = Negate(vk.gamma_g2)
    /\ Len(pvk.gamma_abc_g1) = 3

\* C12: a second preparation of the same verifying key yields a prepared key
\* with which every conditional_verify_prepared call (same inputs, proof,
\* condition) has the outcome it has with the first one: the same result and
\* the same constraint system, hence the same satisfiability; prepare leaves
\* the verifying key, and conditional_verify_prepared the prepared key, as
\* they were.
C12_IdempotentPreparation ==
    [][/\ (/\ call.op = "prepare" /\ call.fault = NoFault /\ ret.res = "Ok"
           /\ call'.op = "prepare" /\ call'.fault = NoFault /\ ret'.res = "Ok")
            => \A condition \in BOOLEAN, fault \in Faults :
                  ConditionalVerifyPrepared(pvk', input, proof, condition, cs, fault)
                     = ConditionalVerifyPrepared(pvk, input, proof, condition, cs, fault)
       /\ call'.op = "prepare" => vk' = vk
       /\ call'.op = "conditional_verify_prepared" => (vk' = vk /\ pvk' = pvk)]_vars

C12_Witness ==
    /\ call.op = "prepare"
    /\ call.fault = NoFault
    /\ call.nth = 2
    /\ ret.res = "Ok"
    /\ vk.gamma_g2 # Zero
    /\ pvk = PreparedKey(vk, Pairing(PrepareG1(vk.alpha_g1), PrepareG2(vk.beta_g2),
                                     NoFault).val)

\* The operations the accumulation of n inputs issues.
RECURSIVE InputOps(_)
InputOps(n) ==
    IF n = 0 THEN <<>> ELSE <<"to_bits", "mul_bits", "add_assign">> \o InputOps(n - 1)

\* C13: a successful conditional_verify_prepared performs, in this order, the
\* input accumulation (one step per zipped gamma_abc_g1 entry), the preparations of A, B, C and g_ic, one miller_loop
\* over the pairs (A, B), (g_ic, prepared -gamma), (C, prepared -delta), one
\* final_exponentiation of that loop's result and one
\* conditional_enforce_equal; no second final_exponentiation is run.
C13_OneLoopOneExponentiation ==
    (call.op = "conditional_verify_prepared" /\ ret.res = "Ok")
    => /\ ret.ops = InputOps(Len(pvk.gamma_abc_g1) - 1)
                      \o <<"prepare_g1", "prepare_g2", "prepare_g1", "prepare_g1",
                           "miller_loop", "final_exponentiation",
                           "conditional_enforce_equal">>
       /\ OpCount("miller_loop", ret.ops) = 1
       /\ OpCount("final_exponentiation", ret.ops) = 1
       /\ ret.test = FinalExponentiation(
                         MillerLoop(<<PrepareG1(proof.a), PrepareG1(ret.g_ic),
                                      PrepareG1(proof.c)>>,
                                    <<PrepareG2(proof.b), pvk.gamma_g2_neg_pc,
                                      pvk.delta_g2_neg_pc>>))
       /\ cs[Len(cs)] = [lhs |-> ret.test, rhs |-> pvk.alpha_g1_beta_g2,
                         condition |-> call.condition]

C13_Witness ==
    /\ call.op = "conditional_verify_prepared"
    /\ ret.res = "Ok"
    /\ Len(input) = 2
    /\ Len(ret.ops) = 13
    /\ pvk.gamma_g2_neg_pc # pvk.delta_g2_neg_pc
    /\ ret.g_ic # proof.c

(***************************************************************************)
(* Properties of the pairing operations (specification SpecPair).          *)
(***************************************************************************)
\* C14: product_of_pairings over n pairs runs one miller_loop over all n
\* pairs and then one final_exponentiation of its result; pairing(p, q)
\* returns what product_of_pairings([p], [q]) returns; when miller_loop fails
\* its error is returned and final_exponentiation is not run.
C14_OneExponentiationForAllPairs ==
    /\ pair_out.op = "product_of_pairings"
          => IF pair_out.fault = "miller_loop"
             THEN pair_out.res = "Err" /\ pair_out.ops = <<"miller_loop">>
             ELSE /\ pair_out.ops = <<"miller_loop", "final_exponentiation">>
                  /\ pair_out.res = "Ok"
                        => pair_out.val = FinalExponentiation(MillerLoop(pair_p, pair_q))
    /\ pair_out.op = "pairing"
          => LET prod == ProductOfPairings(<<pair_p[1]>>, <<pair_q[1]>>, pair_out.fault)
             IN /\ pair_out.res = prod.res
                /\ pair_out.val = prod.val
                /\ pair_out.ops = prod.ops

C14_Witness ==
    /\ pair_out.op = "product_of_pairings"
    /\ pair_out.res = "Ok"
    /\ Len(pair_p) = 2
    /\ pair_p[1] # pair_p[2]
    /\ pair_q[1] # pair_q[2]
    /\ pair_out.ops = <<"miller_loop", "final_exponentiation">>

(***************************************************************************)
(* Properties of the windowed multiplications (specification SpecWin).     *)
(***************************************************************************)
\* The sum of the base powers of the pairs whose bit is set.
RECURSIVE SelectedSum(_)
SelectedSum(pairs) ==
    IF pairs = <<>> THEN Zero
    ELSE Add(IF Head(pairs).bit THEN Head(pairs).base_power ELSE Zero,
             SelectedSum(Tail(pairs)))

RECURSIVE PairShape(_)
PairShape(n) == IF n = 0 THEN <<>> ELSE <<"add", "select">> \o PairShape(n - 1)

\* C15: precomputed_base_scalar_mul replaces self by self plus the sum of
\* bit_i * base_power_i over the pairs handed to it, issuing for each pair in
\* order one addition and one select and no doubling; with no pair, or with
\* every bit false, self keeps its value.
C15_PrecomputedIsSelectedSum ==
    [][(win_out'.op = "precomputed_base_scalar_mul" /\ win_out'.res = "Ok")
       => /\ self' = Add(self, SelectedSum(win_out'.pairs))
          /\ win_out'.trace = PairShape(Len(win_out'.pairs))
          /\ OpCount("double_in_place", win_out'.trace) = 0
          /\ (\A i \in 1 .. Len(win_out'.pairs) : ~win_out'.pairs[i].bit) => self' = self]_vars

C15_Witness ==
    /\ win_out.op = "precomputed_base_scalar_mul"
    /\ win_out.res = "Ok"
    /\ Len(win_out.pairs) = 2
    /\ win_out.pairs[1].bit
    /\ win_out.pairs[2].bit
    /\ win_out.pairs[1].base_power # win_out.pairs[2].base_power
    /\ self = Add(Add(1, win_out.pairs[1].base_power), win_out.pairs[2].base_power)

\* Every window has a table and every bit of it a base power in that table.
EveryBitHasBasePower ==
    /\ Len(scalars) <= Len(bases)
    /\ \A w \in 1 .. Len(scalars) : Len(scalars[w]) <= Len(bases[w])

\* The sum over the windows from w on of the base powers of their set bits.
RECURSIVE WindowSum(_)
WindowSum(w) ==
    IF w > Len(scalars) THEN Zero
    ELSE Add(SelectedSum([j \in 1 .. Len(scalars[w]) |->
                            [bit |-> scalars[w][j], base_power |-> bases[w][j]]]),
             WindowSum(w + 1))

\* C16: precomputed_base_multiscalar_mul returns, starting from the identity,
\* the sum over all windows w of the scalars and all bits j of window w of
\* bit_{w,j} * bases[w][j]: no window and no bit of a window is left out.
C16_EveryWindowContributes ==
    (win_out.op = "precomputed_base_multiscalar_mul" /\ win_out.res = "Ok")
    => /\ EveryBitHasBasePower
       /\ win_out.result = WindowSum(1)

\* The windows and the tables differ in number, or a window and its table in
\* length.
SizeMismatch(tables, windows) ==
    \/ Len(windows) # Len(tables)
    \/ \E w \in 1 .. Len(windows) :
          w <= Len(tables) /\ Len(windows[w]) # Len(tables[w])

\* C17: whenever the windows of bits and the tables of base powers differ in
\* number, or a window and its table differ in length,
\* precomputed_base_multiscalar_mul, called directly or by the Pedersen CRH
\* evaluate, fails by assertion with no gadget operation issued.
C17_MismatchFailsByAssertion ==
    /\ (/\ win_out.op = "precomputed_base_multiscalar_mul"
        /\ SizeMismatch(bases, scalars))
          => (win_out.res = "Panic" /\ win_out.trace = <<>>)
    /\ (/\ win_out.op = "evaluate"
        /\ SizeMismatch(bases, InputInBits(crh_input, window)))
          => (win_out.res = "Panic" /\ win_out.trace = <<>>)

\* C18: the default precomputed_base_3_bit_signed_digit_scalar_mul returns the
\* error AssignmentMissing for every tables and windows, returns no curve
\* variable, issues no gadget operation and leaves the constraint system as
\* it was.
C18_ThreeBitDefaultFails ==
    [][win_out'.op = "precomputed_base_3_bit_signed_digit_scalar_mul"
       => /\ win_out'.res = "Err"
          /\ win_out'.err = "AssignmentMissing"
          /\ win_out'.result = Undef
          /\ win_out'.trace = <<>>
          /\ cs' = cs]_vars

C18_Witness ==
    /\ win_out.op = "precomputed_base_3_bit_signed_digit_scalar_mul"
    /\ win_out.err = "AssignmentMissing"
    /\ Len(scalars) = 2
    /\ Len(bases) = 2
    /\ Len(scalars[1]) = 2
    /\ Len(bases[1]) = 2
    /\ Len(scalars[2]) = Len(bases[2])
    /\ scalars[1][1]

(***************************************************************************)
(* Properties of the input packing (specification SpecPack).               *)
(***************************************************************************)
\* C19: MiddleCircuit allocates as public input the bytes of the inputs in
\* input order, each input as its limbs in order and each limb as its bytes
\* least significant first, and hands the verifier one bit sequence per
\* input, NUM_LIMBS * 64 bits long (here NumLimbs * LimbBits), whose bit j is
\* bit j of the input's integer representation.
C19_MiddleRepacking ==
    (pack_out.op = "middle" /\ pack_out.res = "Ok")
    => /\ Len(pack_out.bytes) = Len(inner_inputs) * NumLimbs * LimbBytes
       /\ \A i \in 1 .. Len(inner_inputs) : \A k \in 1 .. NumLimbs : \A b \in 1 .. LimbBytes :
             pack_out.bytes[(i - 1) * NumLimbs * LimbBytes + (k - 1) * LimbBytes + b]
                = (inner_inputs[i][k] \div Pow2(ByteBits * (b - 1))) % Pow2(ByteBits)
       /\ Len(pack_out.gadgets) = Len(inner_inputs)
       /\ \A i \in 1 .. Len(inner_inputs) :
             /\ Len(pack_out.gadgets[i]) = NumLimbs * LimbBits
             /\ \A j \in 0 .. (NumLimbs * LimbBits - 1) :
                   pack_out.gadgets[i][j + 1] = ElementBit(inner_inputs[i], j)

C19_Witness ==
    /\ pack_out.op = "middle"
    /\ pack_out.res = "Ok"
    /\ Len(inner_inputs) = 2
    /\ inner_inputs[1] # inner_inputs[2]
    /\ inner_inputs[1][1] # inner_inputs[1][2]
    /\ ToLeBytes(inner_inputs[1][1]) # ToBeBytes(inner_inputs[1][1])
    /\ Len(pack_out.gadgets) = 2

\* C20: in OuterCircuit's bit stream every input takes NUM_LIMBS * 64 bits
\* (here NumLimbs * LimbBits), in input order: first its MODULUS_BITS value
\* bits, least significant first (to_bits reversed), then constant-false
\* padding only.
C20_OuterBitStream ==
    (pack_out.op = "outer" /\ pack_out.res = "Ok")
    => /\ Len(pack_out.bits) = Len(inner_inputs) * NumLimbs * LimbBits
       /\ \A i \in 1 .. Len(inner_inputs) : \A j \in 0 .. (NumLimbs * LimbBits - 1) :
             LET bit == pack_out.bits[(i - 1) * NumLimbs * LimbBits + j + 1]
             IN IF j < FieldBits
                THEN ~bit.constant /\ bit.val = ElementBit(inner_inputs[i], j)
                ELSE bit.constant /\ ~bit.val

C20_Witness ==
    /\ pack_out.op = "outer"
    /\ pack_out.res = "Ok"
    /\ Len(inner_inputs) = 2
    /\ inner_inputs[1] # inner_inputs[2]
    /\ FpToBits(inner_inputs[2]) # Reverse(FpToBits(inner_inputs[2]))
    /\ Len(pack_out.gadgets) = 3

\* The concatenation of the first `size` bits (fewer for the last one, which
\* carries the `left` bits that remain) of each chunk from index i on.
RECURSIVE Unpadded(_, _, _, _)
Unpadded(gadgets, i, size, left) ==
    IF i > Len(gadgets) THEN <<>>
    ELSE LET carried == IF left < size THEN left ELSE size
         IN SubSeq(gadgets[i], 1, carried) \o Unpadded(gadgets, i + 1, size, left - carried)

\* C21: every bit sequence OuterCircuit hands to the verifier carries at most
\* 8 * floor(CAPACITY / 8) bits of the stream, which is less than the field's
\* bit length, followed by constant-false padding only, up to NUM_LIMBS * 64
\* bits (here NumLimbs * LimbBits); the sequences without their padding
\* concatenate back to the stream, and there are
\* ceil(stream length / (8 * floor(CAPACITY / 8))) of them.
C21_ChunksRespectCapacity ==
    (pack_out.op = "outer" /\ pack_out.res = "Ok")
    => LET size == ByteBits * (Capacity \div ByteBits)
           stream == pack_out.bits
           count == (Len(stream) + size - 1) \div size
       IN /\ size < FieldBits
          /\ Len(pack_out.gadgets) = count
          /\ \A i \in 1 .. Len(pack_out.gadgets) :
                LET carried == IF i < count THEN size ELSE Len(stream) - (count - 1) * size
                IN /\ Len(pack_out.gadgets[i]) = NumLimbs * LimbBits
                   /\ carried <= size
                   /\ \A j \in (carried + 1) .. (NumLimbs * LimbBits) :
                         pack_out.gadgets[i][j] = [val |-> FALSE, constant |-> TRUE]
          /\ Unpadded(pack_out.gadgets, 1, size, Len(stream)) = stream

C21_Witness ==
    /\ pack_out.op = "outer"
    /\ pack_out.res = "Ok"
    /\ Len(inner_inputs) = 2
    /\ Len(pack_out.gadgets) = 3
    /\ \E j \in 1 .. Len(pack_out.gadgets[3]) : pack_out.gadgets[3][j].val
    /\ Len(pack_out.bits) < 3 * ByteBits * (Capacity \div ByteBits)

\* Bit j (from 1, least significant first) of a field element kept as bytes.
ElementBitLe(element, j) ==
    LET all == FlatBits(element) IN IF j <= Len(all) THEN all[j] ELSE FALSE

\* C22: the bit sequences OuterCircuit hands to verify are as many as the
\* public inputs of MiddleCircuit (the field elements MiddleCircuit::inputs
\* packs from the same byte stream, floor(CAPACITY / 8) bytes each), and
\* sequence i carries the little-endian bits of element i; so the verifier's
\* input-count check passes, the outer circuit is satisfied for a valid
\* middle proof, and it is unsatisfied when one repacked bit is corrupted.
C22_RecursionEndToEnd ==
    (call.op = "outer_circuit" /\ call.fault = NoFault)
    => LET field_elements == MiddleCircuitInputs(inner_inputs)
           honest == BitValues(pack_out.gadgets)
       IN /\ Len(pack_out.gadgets) = Len(field_elements)
          /\ \A i \in 1 .. Len(field_elements) :
                /\ Len(field_elements[i]) <= Capacity \div ByteBits
                /\ \A j \in 1 .. Len(honest[i]) :
                      honest[i][j] = ElementBitLe(field_elements[i], j)
          /\ ret.res = "Ok"
          /\ ValidMiddleProof(vk, field_elements, proof)
                => (IsSatisfied(cs) <=> call.flip = <<0, 0>>)
          /\ (~ValidMiddleProof(vk, field_elements, proof) /\ call.flip = <<0, 0>>)
                => ~IsSatisfied(cs)

C22_Witness ==
    /\ call.op = "outer_circuit"
    /\ call.fault = NoFault
    /\ Len(inner_inputs) = 2
    /\ Len(input) = 3
    /\ ValidMiddleProof(vk, MiddleCircuitInputs(inner_inputs), proof)
    /\ call.flip = <<3, 1>>
    /\ ~IsSatisfied(cs)
    /\ \E j \in 1 .. Len(input[2]) : input[2][j]

C22_WitnessSatisfied ==
    /\ call.op = "outer_circuit"
    /\ call.fault = NoFault
    /\ Len(input) = 3
    /\ call.flip = <<0, 0>>
    /\ IsSatisfied(cs)

\* C23: allocating a VerifyingKeyVar, PreparedVerifyingKeyVar or ProofVar
\* with a failing value producer returns the producer's error and allocates
\* nothing; with a producer that succeeds the components are allocated in
\* order, each with the requested mode, and a component whose allocation
\* fails ends the allocation with an error: the components before it are
\* allocated, it and those after it are not.
C23_AllocationErrors ==
    [][alloc_out'.kind # "none"
       => LET components == Components(alloc_out'.kind)
              done == IF alloc_out'.failing = 0 THEN Len(components)
                      ELSE alloc_out'.failing - 1
          IN IF alloc_out'.producer # "Ok"
             THEN /\ alloc_out'.res = "Err"
                  /\ alloc_out'.err = alloc_out'.producer
                  /\ allocated' = allocated
             ELSE /\ alloc_out'.res = (IF alloc_out'.failing = 0 THEN "Ok" ELSE "Err")
                  /\ Len(allocated') = Len(allocated) + done
                  /\ SubSeq(allocated', 1, Len(allocated)) = allocated
                  /\ \A i \in 1 .. done :
                        allocated'[Len(allocated) + i]
                           = [name |-> components[i], mode |-> alloc_out'.mode]]_vars

C23_Witness ==
    /\ alloc_out.kind = "VerifyingKeyVar"
    /\ alloc_out.producer = "Ok"
    /\ alloc_out.failing = 3
    /\ alloc_out.res = "Err"
    /\ Len(allocated) = 3
    /\ allocated[3] = [name |-> "beta_g2", mode |-> "Witness"]

\* C24: in conditional_verify_prepared the first failure of a fallible
\* sub-operation (to_bits, mul_bits, prepare_g1, prepare_g2, miller_loop,
\* final_exponentiation, conditional_enforce_equal) is returned as an error
\* and no later step runs: the call does not panic and the constraint
\* system is as it was.
C24_FirstFailureIsTypedError ==
    (/\ call.op = "conditional_verify_prepared"
     /\ call.fault # NoFault
     /\ Len(input) = Len(pvk.gamma_abc_g1) - 1
     /\ ret.res # "Ok")
    => (ret.res = "Err" /\ cs \in PriorSystems)

\* The same for every sub-operation but final_exponentiation.
C24_OtherFailuresAreTypedErrors ==
    (/\ call.op = "conditional_verify_prepared"
     /\ call.fault \notin {NoFault, "final_exponentiation"}
     /\ Len(input) = Len(pvk.gamma_abc_g1) - 1
     /\ ret.res # "Ok")
    => (ret.res = "Err" /\ cs \in PriorSystems)

\* A constant reports no handle or the 'no system' sentinel.
ReportsConstant(handle) == handle \in {"NoHandle", "None"}

\* C25: is_constant is true exactly when cs() reports no handle or the
\* 'no system' sentinel, so a value with a real constraint system is never
\* constant; a reference to a value reports the handle and the is_constant
\* of the value.
C25_ConstantIffNoSystem ==
    (const_out.op \in {"value", "reference"})
    => /\ const_out.handle = elements[const_out.index]
       /\ const_out.constant <=> ReportsConstant(elements[const_out.index])
       /\ elements[const_out.index] \in RealSystems => ~const_out.constant

C25_Witness ==
    /\ const_out.op = "reference"
    /\ const_out.handle = "None"
    /\ const_out.constant
    /\ elements = <<"cs1", "None">>

\* C30: cs() of a slice reports a real handle whenever at least one element
\* reports one, so is_constant of the slice is true exactly when every
\* element is constant, in whatever order the elements come.
C30_SliceConstantIffAllConstant ==
    (const_out.op = "slice")
    => /\ (\E i \in 1 .. Len(elements) : elements[i] \in RealSystems)
             => const_out.handle \in RealSystems
       /\ const_out.constant <=> \A i \in 1 .. Len(elements) : ReportsConstant(elements[i])

\* The same for slices in which no sentinel follows a real handle.
C30_HoldsWithoutLaterSentinel ==
    (/\ const_out.op = "slice"
     /\ \A i, j \in 1 .. Len(elements) :
           (i < j /\ elements[i] \in RealSystems) => elements[j] # "None")
    => /\ (\E i \in 1 .. Len(elements) : elements[i] \in RealSystems)
             => const_out.handle \in RealSystems
       /\ const_out.constant <=> \A i \in 1 .. Len(elements) : ReportsConstant(elements[i])

\* C26: pairing(s * a, b), pairing(a, s * b) and pairing(a, b)^s, computed
\* in-circuit, equal each other and the native values, and the constraint
\* system is satisfied after enforce_equal on the in-circuit values.
C26_PairingBilinearity ==
    (test_out.op = "bilinearity_test" /\ test_out.fault = NoFault)
    => /\ test_out.res = "Ok"
       /\ test_out.values.ans1_g = test_out.values.ans2_g
       /\ test_out.values.ans2_g = test_out.values.ans3_g
       /\ test_out.values.ans1_g = (Cofactor * test_in.s * test_in.a * test_in.b) % GTOrder
       /\ test_out.values.ans1_n = test_out.values.ans1_g
       /\ test_out.values.ans2_n = test_out.values.ans2_g
       /\ test_out.values.ans3_n = test_out.values.ans3_g
       /\ Len(cs) = 2
       /\ IsSatisfied(cs)

C26_Witness ==
    /\ test_out.op = "bilinearity_test"
    /\ test_out.fault = NoFault
    /\ test_out.res = "Ok"
    /\ test_in.s > 1
    /\ test_in.s * test_in.a >= Order
    /\ test_out.values.ans3_g # 0
    /\ test_out.values.ans3_g # NativePairing(test_in.a, test_in.b)

\* C27: a + 0 = a, a - 0 = a, a - a = 0, a + b = b + a,
\* (a + b) + a = a + (b + a); double_in_place on a copy of a, and double,
\* which leaves a as it is, equal a + a and the native doubling; the
\* constraint system is satisfied after enforce_equal on each pair.
C27_GroupLaws ==
    (test_out.op = "group_test" /\ test_out.fault = NoFault)
    => LET v == test_out.values
       IN /\ test_out.res = "Ok"
          /\ v.plus_zero = test_in.a
          /\ v.minus_zero = test_in.a
          /\ v.minus_self = Zero
          /\ v.a_b = v.b_a
          /\ v.ab_a = v.a_ba
          /\ v.a2 = v.a_a
          /\ v.a2 = (2 * test_in.a) % Order
          /\ v.doubled = v.a_a
          /\ v.a = test_in.a
          /\ v.b2 = v.b_b
          /\ Len(cs) = 4
          /\ IsSatisfied(cs)

C27_Witness ==
    /\ test_out.op = "group_test"
    /\ test_out.fault = NoFault
    /\ test_out.res = "Ok"
    /\ test_in.a # Zero
    /\ test_in.b # Zero
    /\ test_in.a # test_in.b
    /\ test_out.values.doubled # test_in.a
    /\ 2 * test_in.a >= Order

\* Bit k (from 1) of the input bytes followed by zero bytes.
PaddedBit(input_bytes, k) ==
    LET all == FlatBits(input_bytes) IN IF k <= Len(all) THEN all[k] ELSE FALSE

\* The native Pedersen hash: window i takes WINDOW_SIZE bits, little-endian,
\* of the zero-padded input, and bit j of it selects the j-th power of the
\* i-th generator.
RECURSIVE NativeWindow(_, _, _, _)
NativeWindow(generators, input_bytes, i, j) ==
    IF j > window.size THEN Zero
    ELSE Add(IF PaddedBit(input_bytes, (i - 1) * window.size + j)
             THEN generators[i][j] ELSE Zero,
             NativeWindow(generators, input_bytes, i, j + 1))

RECURSIVE NativeCRH(_, _, _)
NativeCRH(generators, input_bytes, i) ==
    IF i > window.num THEN Zero
    ELSE Add(NativeWindow(generators, input_bytes, i, 1),
             NativeCRH(generators, input_bytes, i + 1))

EveryWindowBitHasPower ==
    \A i \in 1 .. Len(bases) : Len(bases[i]) >= window.size

PedersenOutcome ==
    /\ (Len(crh_input) * ByteBits > window.size * window.num \/ Len(bases) # window.num)
          => (win_out.res = "Panic" /\ win_out.trace = <<>>)
    /\ (/\ Len(crh_input) * ByteBits <= window.size * window.num
        /\ Len(bases) = window.num
        /\ win_out.fault = NoFault)
          => /\ win_out.res = "Ok"
             /\ EveryWindowBitHasPower
             /\ win_out.result = NativeCRH(bases, crh_input, 1)

\* C28: Pedersen evaluate pads an input shorter than
\* WINDOW_SIZE * NUM_WINDOWS bits with zero bytes to exactly that length;
\* a longer input, or parameters whose number of generator tables is not
\* NUM_WINDOWS, fails by assertion before the multi-scalar multiplication;
\* otherwise window i (WINDOW_SIZE little-endian bits) selects among the
\* powers of the i-th generator and the result is the native hash of the
\* zero-padded input.
C28_PedersenEvaluate ==
    (win_out.op = "evaluate") => PedersenOutcome

\* The same for windows that make up whole bytes and tables of WINDOW_SIZE
\* powers or more.
C28_HoldsForWholeBytesAndFullTables ==
    (/\ win_out.op = "evaluate"
     /\ (window.size * window.num) % ByteBits = 0
     /\ (Len(bases) = window.num => EveryWindowBitHasPower))
    => PedersenOutcome

\* The tables are NUM_WINDOWS tables of WINDOW_SIZE entries each, and the
\* chunks are of exactly CHUNK_SIZE bits, at most WINDOW_SIZE to a group.
TablesAndChunksMatch ==
    /\ Len(bases) = window.num
    /\ \A i \in 1 .. Len(bases) : Len(bases[i]) = window.size
    /\ \A g \in 1 .. Len(win_out.groups) :
          /\ Len(win_out.groups[g]) <= window.size
          /\ \A k \in 1 .. Len(win_out.groups[g]) : Len(win_out.groups[g][k]) = 3

\* C29: Bowe-Hopwood evaluate calls the 3-bit signed-digit multiplication
\* only with exactly NUM_WINDOWS generator tables of exactly WINDOW_SIZE
\* entries each and with the input bits, padded with constant false to a
\* multiple of 3, in exactly NUM_WINDOWS groups of at most WINDOW_SIZE
\* chunks of exactly 3 bits; with any other shape of parameters or input it
\* fails by assertion before the multiplication.
C29_CallsOnlyWithMatchingShape ==
    (win_out.op = "bowe_hopwood_evaluate")
    => IF win_out.called
       THEN TablesAndChunksMatch /\ Len(win_out.groups) = window.num
       ELSE win_out.res = "Panic"

\* The same without the number of groups.
C29_TablesAndChunksChecked ==
    (win_out.op = "bowe_hopwood_evaluate")
    => IF win_out.called THEN TablesAndChunksMatch ELSE win_out.res = "Panic"

====
